---- MODULE Spec2Model ----
(***************************************************************************)
(* moltcities: the quota ledger (ip_rate_limits / user_rate_limits), the   *)
(* per-user edit cooldown (users.last_edit_at) and the canvas image cache. *)
(*                                                                         *)
(* Time is counted in clock ticks, TicksPerSecond ticks to the second: Go  *)
(* time.Now() has sub-second resolution, SQLite's CURRENT_TIMESTAMP has    *)
(* whole seconds.                                                          *)
(***************************************************************************)
EXTENDS Integers, Sequences, FiniteSets, TLC

VARIABLES
    now,          \* the wall clock, in ticks
    cfg,          \* the caller exercised in this behaviour, its limit / window, the counter it starts from
    ipLimits,     \* table ip_rate_limits: a set of rows
    userLimits,   \* table user_rate_limits: a set of rows
    users,        \* table users: a set of rows [id, last_edit_at]
    lastCall,     \* observer: the most recent request and what it did
    nCalls,       \* observer: rate-limit checks made so far
    firstAt,      \* observer: time of the first rate-limit check, -1 before it
    resetAt,      \* observer: time of the latest check that met an elapsed window, -1 if none
    sinceReset,   \* observer: checks made since resetAt, that one included
    pc,           \* concurrent checks: position of each request
    pnow,         \* concurrent checks: the request's now (ratelimit.go:11)
    pread,        \* concurrent checks: the rows its SELECT returned
    pres,         \* concurrent checks: what it returned
    canvas,       \* table canvas: a set of rows, PRIMARY KEY (x, y)
    edits,        \* table edits: the rows in id order
    imageCache,   \* <<>> for nil, <<image>> for the cached bytes
    imageCacheTime,
    imageCacheMu, \* the RWMutex: who holds it shared, who holds it exclusive
    canvasGen,    \* observer: SetPixel transactions committed so far
    cacheGen,     \* observer: the canvasGen the cached bytes were rendered from
    invalidatedGen, \* observer: latest canvasGen whose edit has finished invalidating
    lastCacheOp,  \* observer: "set" or "invalidate", the latest write to the cache
    lastEdit,     \* observer: the latest request, if an eligibility check or an edit
    lastGet,      \* observer: the latest request, if a GetCanvasImage
    epc,          \* concurrent edits: position of each EditPixel request
    ereq,         \* concurrent edits: the request
    eloc,         \* concurrent edits: its locals and what it observed
    rpc,          \* concurrent reads: position of each GetCanvasImage request
    rloc,         \* concurrent reads: its locals and what it observed
    tx,           \* the SetPixel transaction in progress: position, working copy
    txs,          \* SetPixel calls in flight together: the transaction of each
    sweep,        \* the CleanupOldRateLimits call in progress: position, cutoff
    lastSweep,    \* observer: the latest CleanupOldRateLimits call, tables before and after
    channels,     \* table channels: a set of rows, name UNIQUE
    messages,     \* table messages: the rows in id order
    pages,        \* table pages: a set of rows, user_id UNIQUE
    pageUpdates,  \* table page_updates: the rows in id order
    mail,         \* table mail: the rows in id order
    mailSends,    \* table mail_sends: the rows in id order
    lastReq,      \* observer: the latest channel / message / page / mail request
    refLedger,    \* observer: the counter a quota ledger would keep for those requests
    qreq          \* concurrent CreateChannel requests: position and locals of each

ledgerVars == <<ipLimits, userLimits, users>>
obsVars == <<lastCall, nCalls, firstAt, resetAt, sinceReset>>
procVars == <<pc, pnow, pread, pres>>
storeVars == <<canvas, edits>>
cacheVars == <<imageCache, imageCacheTime, imageCacheMu>>
canvasObs == <<canvasGen, cacheGen, invalidatedGen, lastCacheOp, lastEdit, lastGet>>
reqVars == <<epc, ereq, eloc, rpc, rloc>>
canvasVars == <<storeVars, cacheVars, canvasObs, reqVars>>
txVars == <<tx, txs>>
sweepVars == <<sweep, lastSweep>>
quotaVars ==
    <<channels, messages, pages, pageUpdates, mail, mailSends, lastReq, refLedger, qreq>>
restVars == <<txVars, sweepVars, quotaVars>>
vars == <<now, cfg, ledgerVars, obsVars, procVars, canvasVars, restVars>>

----------------------------------------------------------------------------
(* Bounds of the model *)

TicksPerSecond == 2
MaxLimit == 2
MaxEdits == 2
ExtraCalls == 2
SmallWindow == 1
NumProcs == 3

(* Program constants *)

RegistrationsPerDay == 5
RegisterWindowSeconds == 86400
CooldownHours == 24
RetentionHours == 24
imageCacheTTL == 10
CanvasSize == 1024
MaxChannelsPerDay == 3
MaxMessagesPerHour == 10
PageUpdatesPerDay == 10
PixelEditsPerDay == 1
ChannelCreatesPerDay == 3
MailSendsPerDay == 20
MaxPageSize == 100 * 1024
MaxMailSize == 10 * 1024

Secs(n) == n * TicksPerSecond

IPs == {"1.2.3.4"}
UserIDs == {2}
IPActions == {"register"}
UserActions == {"post_message"}

Procs == 1..NumProcs

----------------------------------------------------------------------------
(* The store: rows of the two rate-limit tables, PRIMARY KEY (subject, action) *)

SelectRow(tbl, s, a) == {r \in tbl : r.subject = s /\ r.action = a}

\* a plausible slip: the table has no PRIMARY KEY (subject, action)
InsertRowNoKey(tbl, s, a, t) ==
    [tbl |-> tbl \cup {[subject |-> s, action |-> a, count |-> 1, window_start |-> t]},
     err |-> FALSE]

\* INSERT ... VALUES (?, ?, 1, ?): fails on the primary key when the row exists
InsertRow(tbl, s, a, t) ==
    IF SelectRow(tbl, s, a) # {}
    THEN [tbl |-> tbl, err |-> TRUE]
    ELSE [tbl |-> tbl \cup {[subject |-> s, action |-> a, count |-> 1, window_start |-> t]},
          err |-> FALSE]

\* UPDATE ... SET count = 1, window_start = ? WHERE key: no row, no effect, no error
ResetRow(tbl, s, a, t) ==
    {IF r.subject = s /\ r.action = a
     THEN [r EXCEPT !.count = 1, !.window_start = t] ELSE r : r \in tbl}

\* a plausible slip: UPDATE ... SET count = count + 1 WHERE ip = ?, no action
IncrementRowAnyAction(tbl, s, a) ==
    {IF r.subject = s THEN [r EXCEPT !.count = r.count + 1] ELSE r : r \in tbl}

\* UPDATE ... SET count = count + 1 WHERE key
IncrementRow(tbl, s, a) ==
    {IF r.subject = s /\ r.action = a
     THEN [r EXCEPT !.count = r.count + 1] ELSE r : r \in tbl}

\* sql.NullTime with Valid = false
NullTime == [valid |-> FALSE, time |-> 0]

\* time.Time.Before
Before(t, u) == t < u

\* time.Time.After
After(t, u) == t > u

----------------------------------------------------------------------------
(* CheckIPRateLimit / CheckUserRateLimit.  `read` is what the SELECT        *)
(* returned, `tbl` the table at the moment of the write: the two are        *)
(* separate statements on the connection pool, outside any transaction.    *)
(* fail: the statement the store fails, "query" for the SELECT, "exec" for *)
(* the INSERT or UPDATE the call comes to, "none" if it fails neither.      *)

\* `_, err = d.conn.Exec(...); return true, err`: the statement takes the table
\* to tbl2 unless it fails (by itself, or because the store is failing)
Exec(tbl, tbl2, err, fail) ==
    IF fail = "exec" THEN [tbl |-> tbl, allowed |-> TRUE, err |-> TRUE]
    ELSE [tbl |-> tbl2, allowed |-> TRUE, err |-> err]

\* a plausible slip: `count > limit` for `count >= limit`
CheckIPRateLimitOffByOne(tbl, read, ip, action, limit, windowSeconds, t, fail) ==
    LET windowStart == t - Secs(windowSeconds) IN
    IF read = {}
    THEN LET ins == InsertRow(tbl, ip, action, t)
         IN [tbl |-> ins.tbl, allowed |-> TRUE, err |-> ins.err]
    ELSE LET row == CHOOSE r \in read : TRUE IN
         IF Before(row.window_start, windowStart)
         THEN [tbl |-> ResetRow(tbl, ip, action, t), allowed |-> TRUE, err |-> FALSE]
         ELSE IF row.count > limit
         THEN [tbl |-> tbl, allowed |-> FALSE, err |-> FALSE]
         ELSE [tbl |-> IncrementRow(tbl, ip, action), allowed |-> TRUE, err |-> FALSE]

\* a plausible slip: the window is taken as elapsed at the boundary already
CheckIPRateLimitInclusive(tbl, read, ip, action, limit, windowSeconds, t, fail) ==
    LET windowStart == t - Secs(windowSeconds) IN
    IF read = {}
    THEN LET ins == InsertRow(tbl, ip, action, t)
         IN [tbl |-> ins.tbl, allowed |-> TRUE, err |-> ins.err]
    ELSE LET row == CHOOSE r \in read : TRUE IN
         IF ~After(row.window_start, windowStart)
         THEN [tbl |-> ResetRow(tbl, ip, action, t), allowed |-> TRUE, err |-> FALSE]
         ELSE IF row.count >= limit
         THEN [tbl |-> tbl, allowed |-> FALSE, err |-> FALSE]
         ELSE [tbl |-> IncrementRow(tbl, ip, action), allowed |-> TRUE, err |-> FALSE]

\* a plausible slip: the attempt is counted before the limit is looked at
CheckIPRateLimitCountsDenied(tbl, read, ip, action, limit, windowSeconds, t, fail) ==
    LET windowStart == t - Secs(windowSeconds) IN
    IF read = {}
    THEN LET ins == InsertRow(tbl, ip, action, t)
         IN [tbl |-> ins.tbl, allowed |-> TRUE, err |-> ins.err]
    ELSE LET row == CHOOSE r \in read : TRUE IN
         IF Before(row.window_start, windowStart)
         THEN [tbl |-> ResetRow(tbl, ip, action, t), allowed |-> TRUE, err |-> FALSE]
         ELSE IF row.count >= limit
         THEN [tbl |-> IncrementRow(tbl, ip, action), allowed |-> FALSE, err |-> FALSE]
         ELSE [tbl |-> IncrementRow(tbl, ip, action), allowed |-> TRUE, err |-> FALSE]

\* a plausible slip: the reset keeps the old count (a decay instead of a hard reset)
CheckIPRateLimitSoftReset(tbl, read, ip, action, limit, windowSeconds, t, fail) ==
    LET windowStart == t - Secs(windowSeconds) IN
    IF read = {}
    THEN LET ins == InsertRow(tbl, ip, action, t)
         IN [tbl |-> ins.tbl, allowed |-> TRUE, err |-> ins.err]
    ELSE LET row == CHOOSE r \in read : TRUE IN
         IF Before(row.window_start, windowStart)
         THEN [tbl |-> {IF r.subject = ip /\ r.action = action
                        THEN [r EXCEPT !.count = limit, !.window_start = t] ELSE r : r \in tbl},
               allowed |-> TRUE, err |-> FALSE]
         ELSE IF row.count >= limit
         THEN [tbl |-> tbl, allowed |-> FALSE, err |-> FALSE]
         ELSE [tbl |-> IncrementRow(tbl, ip, action), allowed |-> TRUE, err |-> FALSE]

CheckIPRateLimit(tbl, read, ip, action, limit, windowSeconds, t, fail) ==
    LET windowStart == t - Secs(windowSeconds) IN
    IF fail = "query" THEN [tbl |-> tbl, allowed |-> FALSE, err |-> TRUE]
    ELSE IF read = {}
    THEN LET ins == InsertRow(tbl, ip, action, t)
         IN Exec(tbl, ins.tbl, ins.err, fail)
    ELSE LET row == CHOOSE r \in read : TRUE IN
         IF Before(row.window_start, windowStart)
         THEN Exec(tbl, ResetRow(tbl, ip, action, t), FALSE, fail)
         ELSE IF row.count >= limit
         THEN [tbl |-> tbl, allowed |-> FALSE, err |-> FALSE]
         ELSE Exec(tbl, IncrementRow(tbl, ip, action), FALSE, fail)

CheckUserRateLimit(tbl, read, userID, action, limit, windowSeconds, t, fail) ==
    LET windowStart == t - Secs(windowSeconds) IN
    IF fail = "query" THEN [tbl |-> tbl, allowed |-> FALSE, err |-> TRUE]
    ELSE IF read = {}
    THEN LET ins == InsertRow(tbl, userID, action, t)
         IN Exec(tbl, ins.tbl, ins.err, fail)
    ELSE LET row == CHOOSE r \in read : TRUE IN
         IF Before(row.window_start, windowStart)
         THEN Exec(tbl, ResetRow(tbl, userID, action, t), FALSE, fail)
         ELSE IF row.count >= limit
         THEN [tbl |-> tbl, allowed |-> FALSE, err |-> FALSE]
         ELSE Exec(tbl, IncrementRow(tbl, userID, action), FALSE, fail)

----------------------------------------------------------------------------
(* Registration *)

\* username "system" is 0; the other usernames are numbered from 1
SystemUser == [id |-> 1, username |-> 0, last_edit_at |-> NullTime]

\* ValidateUsername: 3..32 characters of [a-zA-Z0-9_], not a reserved name
ValidateUsername(username) ==
    /\ username.len >= 3
    /\ username.len <= 32
    /\ username.charset
    /\ ~username.reserved

UsernameExists(usr, username) == \E r \in usr : r.username = username.id

NextUserID(usr) == Cardinality(usr) + 1

\* CreateUser: INSERT INTO users; last_edit_at is left NULL
CreateUser(usr, username) ==
    usr \cup {[id |-> NextUserID(usr), username |-> username.id, last_edit_at |-> NullTime]}

\* DefaultRateLimits: the normal rate limits
DefaultRateLimits ==
    [PixelEditsPerDay |-> PixelEditsPerDay, PageUpdatesPerDay |-> PageUpdatesPerDay,
     ChannelCreatesPerDay |-> ChannelCreatesPerDay, MailSendsPerDay |-> MailSendsPerDay,
     RegistrationsPerDay |-> RegistrationsPerDay]

\* LiftedRateLimits: very high rate limits for pre-population
LiftedRateLimits ==
    [PixelEditsPerDay |-> 10000, PageUpdatesPerDay |-> 10000,
     ChannelCreatesPerDay |-> 10000, MailSendsPerDay |-> 10000,
     RegistrationsPerDay |-> 10000]

\* os.Getenv: the environment the server was started in is part of cfg; a
\* variable that is not set reads as the empty string
Getenv(name) == IF name \in DOMAIN cfg THEN cfg[name] ELSE ""

\* GetRateLimits: the current rate limits based on environment
GetRateLimits ==
    IF Getenv("LIFT_RATE_LIMITS") = "true" THEN LiftedRateLimits ELSE DefaultRateLimits

\* a plausible slip: `allowed, _ := h.db.CheckIPRateLimit(...)`
RegisterIgnoresError(tbl, usr, ip, body, tokenOK, fail, t) ==
    LET unchecked(code) ==
            [ipLimits |-> tbl, users |-> usr, status |-> code, checked |-> FALSE,
             allowed |-> FALSE, err |-> FALSE]
    IN
    IF ~body.json THEN unchecked(400)
    ELSE IF ~ValidateUsername(body.username) THEN unchecked(400)
    ELSE
      LET rl == CheckIPRateLimit(tbl, SelectRow(tbl, ip, "register"), ip, "register",
                                 GetRateLimits.RegistrationsPerDay,
                                 RegisterWindowSeconds, t, fail)
          checked(code, usr2) ==
            [ipLimits |-> rl.tbl, users |-> usr2, status |-> code, checked |-> TRUE,
             allowed |-> rl.allowed, err |-> rl.err]
      IN
      IF ~rl.allowed THEN checked(429, usr)
      ELSE IF fail = "exists" THEN checked(500, usr)
      ELSE IF UsernameExists(usr, body.username) THEN checked(409, usr)
      ELSE IF ~tokenOK THEN checked(500, usr)
      ELSE IF fail = "create" THEN checked(500, usr)
      ELSE checked(201, CreateUser(usr, body.username))

\* a plausible slip: the rate-limit check placed before the validation
RegisterCountsInvalid(tbl, usr, ip, body, tokenOK, fail, t) ==
    LET rl == CheckIPRateLimit(tbl, SelectRow(tbl, ip, "register"), ip, "register",
                               GetRateLimits.RegistrationsPerDay,
                               RegisterWindowSeconds, t, fail)
        checked(code, usr2) ==
            [ipLimits |-> rl.tbl, users |-> usr2, status |-> code, checked |-> TRUE,
             allowed |-> rl.allowed, err |-> rl.err]
    IN
    IF rl.err THEN checked(500, usr)
    ELSE IF ~rl.allowed THEN checked(429, usr)
    ELSE IF ~body.json THEN checked(400, usr)
    ELSE IF ~ValidateUsername(body.username) THEN checked(400, usr)
    ELSE IF fail = "exists" THEN checked(500, usr)
    ELSE IF UsernameExists(usr, body.username) THEN checked(409, usr)
    ELSE IF ~tokenOK THEN checked(500, usr)
    ELSE IF fail = "create" THEN checked(500, usr)
    ELSE checked(201, CreateUser(usr, body.username))

\* The Register handler, start to end.  body.json: the body decodes.
\* fail: the statement the store fails: "query" / "exec" inside
\* CheckIPRateLimit, "exists" for UsernameExists, "create" for CreateUser.
Register(tbl, usr, ip, body, tokenOK, fail, t) ==
    LET unchecked(code) ==
            [ipLimits |-> tbl, users |-> usr, status |-> code, checked |-> FALSE,
             allowed |-> FALSE, err |-> FALSE]
    IN
    IF ~body.json THEN unchecked(400)
    ELSE IF ~ValidateUsername(body.username) THEN unchecked(400)
    ELSE
      LET rl == CheckIPRateLimit(tbl, SelectRow(tbl, ip, "register"), ip, "register",
                                 GetRateLimits.RegistrationsPerDay,
                                 RegisterWindowSeconds, t, fail)
          checked(code, usr2) ==
            [ipLimits |-> rl.tbl, users |-> usr2, status |-> code, checked |-> TRUE,
             allowed |-> rl.allowed, err |-> rl.err]
      IN
      IF rl.err THEN checked(500, usr)
      ELSE IF ~rl.allowed THEN checked(429, usr)
      ELSE IF fail = "exists" THEN checked(500, usr)
      ELSE IF UsernameExists(usr, body.username) THEN checked(409, usr)
      ELSE IF ~tokenOK THEN checked(500, usr)
      ELSE IF fail = "create" THEN checked(500, usr)
      ELSE checked(201, CreateUser(usr, body.username))

\* time.Now().Add(-24 * time.Hour), in ticks back from now
RetentionTicks == Secs(RetentionHours * 60 * 60)

\* a plausible slip: `<=` for `<` in the DELETE
DeleteOlderOrEqual(tbl, cutoff) == {r \in tbl : ~(r.window_start <= cutoff)}

\* DELETE FROM ... WHERE window_start < ?
DeleteOlder(tbl, cutoff) == {r \in tbl : ~(r.window_start < cutoff)}

\* CleanupOldRateLimits.  failAt: the DELETE that fails, "none" if neither.
CleanupOldRateLimits(ipTbl, userTbl, t, failAt) ==
    LET cutoff == t - RetentionTicks IN
    IF failAt = "ip"
    THEN [ipLimits |-> ipTbl, userLimits |-> userTbl, err |-> TRUE]
    ELSE IF failAt = "user"
    THEN [ipLimits |-> DeleteOlder(ipTbl, cutoff), userLimits |-> userTbl, err |-> TRUE]
    ELSE [ipLimits |-> DeleteOlder(ipTbl, cutoff),
          userLimits |-> DeleteOlder(userTbl, cutoff), err |-> FALSE]

----------------------------------------------------------------------------
(* The canvas: edit cooldown, SetPixel, Render, the image cache *)

\* CURRENT_TIMESTAMP: the time of the statement, cut to the whole second
CurrentTimestamp(t) == (t \div TicksPerSecond) * TicksPerSecond

TimeOf(t) == [valid |-> TRUE, time |-> t]

\* 24 * time.Hour, in ticks
CooldownTicks == Secs(CooldownHours * 60 * 60)

UserRows(usr, userID) == {r \in usr : r.id = userID}

\* a plausible slip: eligible from the boundary on (`!Before` for `After`)
CanUserEditNowInclusive(usr, userID, t) ==
    IF UserRows(usr, userID) = {}
    THEN [canEdit |-> FALSE, nextEdit |-> NullTime, err |-> TRUE]
    ELSE LET lastEditAt == (CHOOSE r \in UserRows(usr, userID) : TRUE).last_edit_at IN
         IF ~lastEditAt.valid
         THEN [canEdit |-> TRUE, nextEdit |-> NullTime, err |-> FALSE]
         ELSE LET nextEdit == lastEditAt.time + CooldownTicks IN
              IF ~Before(t, nextEdit)
              THEN [canEdit |-> TRUE, nextEdit |-> NullTime, err |-> FALSE]
              ELSE [canEdit |-> FALSE, nextEdit |-> TimeOf(nextEdit), err |-> FALSE]

\* canvas.go: CanUserEditNow
CanUserEditNow(usr, userID, t) ==
    IF UserRows(usr, userID) = {}
    THEN [canEdit |-> FALSE, nextEdit |-> NullTime, err |-> TRUE]
    ELSE LET lastEditAt == (CHOOSE r \in UserRows(usr, userID) : TRUE).last_edit_at IN
         IF ~lastEditAt.valid
         THEN [canEdit |-> TRUE, nextEdit |-> NullTime, err |-> FALSE]
         ELSE LET nextEdit == lastEditAt.time + CooldownTicks IN
              IF After(t, nextEdit)
              THEN [canEdit |-> TRUE, nextEdit |-> NullTime, err |-> FALSE]
              ELSE [canEdit |-> FALSE, nextEdit |-> TimeOf(nextEdit), err |-> FALSE]

\* users.go: CanUserEdit, the same check under another name
CanUserEdit(usr, userID, t) ==
    IF UserRows(usr, userID) = {}
    THEN [canEdit |-> FALSE, nextEdit |-> NullTime, err |-> TRUE]
    ELSE LET lastEditAt == (CHOOSE r \in UserRows(usr, userID) : TRUE).last_edit_at IN
         IF ~lastEditAt.valid
         THEN [canEdit |-> TRUE, nextEdit |-> NullTime, err |-> FALSE]
         ELSE LET nextEdit == lastEditAt.time + CooldownTicks IN
              IF After(t, nextEdit)
              THEN [canEdit |-> TRUE, nextEdit |-> NullTime, err |-> FALSE]
              ELSE [canEdit |-> FALSE, nextEdit |-> TimeOf(nextEdit), err |-> FALSE]

\* Colours are strings, held as tuples of characters
HexLower == <<"0", "1", "2", "3", "4", "5", "6", "7", "8", "9", "a", "b", "c", "d", "e", "f">>
HexUpper == <<"0", "1", "2", "3", "4", "5", "6", "7", "8", "9", "A", "B", "C", "D", "E", "F">>

IsHexDigit(c) == \E i \in 1..16 : c = HexLower[i] \/ c = HexUpper[i]

HexVal(c) == (CHOOSE i \in 1..16 : c = HexLower[i] \/ c = HexUpper[i]) - 1

\* HexToColor: an optional '#', then six hex digits read two by two
HexToColor(hex) ==
    LET h == IF Len(hex) > 0 /\ hex[1] = "#" THEN Tail(hex) ELSE hex IN
    IF Len(h) # 6 \/ \E i \in 1..Len(h) : ~IsHexDigit(h[i])
    THEN [ok |-> FALSE, rgba |-> <<0, 0, 0, 0>>]
    ELSE [ok |-> TRUE,
          rgba |-> <<16 * HexVal(h[1]) + HexVal(h[2]), 16 * HexVal(h[3]) + HexVal(h[4]),
                     16 * HexVal(h[5]) + HexVal(h[6]), 255>>]

ValidateColor(hex) == HexToColor(hex).ok

ValidateCoordinate(n) == ~(n < 0 \/ n >= CanvasSize)

\* the pixels of the picture the model keeps: the coordinates requests name
SampleCoords == {<<0, 0>>, <<0, CanvasSize - 1>>}

White == <<255, 255, 255, 255>>

\* GetAllPixels: the map (x, y) -> colour of the canvas rows
GetAllPixels(cnv) == {[x |-> r.x, y |-> r.y, color |-> r.color] : r \in cnv}

\* Render: white everywhere, then every stored pixel whose colour parses
Render(pixels) ==
    [c \in SampleCoords |->
        LET at == {px \in pixels : px.x = c[1] /\ px.y = c[2] /\ HexToColor(px.color).ok}
            set == {HexToColor(px.color).rgba : px \in at}
        IN IF set = {} THEN White ELSE CHOOSE rgba \in set : TRUE]

\* the orders in which `for coord, hex := range pixels` can visit the map
Orders(pixels) ==
    {o \in [1..Cardinality(pixels) -> pixels] :
        \A i, j \in 1..Cardinality(pixels) : i # j => o[i] # o[j]}

\* render.go:27-33  the loop body, pixel after pixel: an unparsable colour is skipped
RECURSIVE ApplyPixels(_, _)
ApplyPixels(img, order) ==
    IF order = <<>> THEN img
    ELSE LET px == Head(order)
             c == HexToColor(px.color)
         IN ApplyPixels(IF c.ok /\ <<px.x, px.y>> \in DOMAIN img
                        THEN [img EXCEPT ![<<px.x, px.y>>] = c.rgba] ELSE img,
                        Tail(order))

\* Render as the code runs it: fill with white, then img.Set in the order the
\* map is ranged over; png.Encode of equal images gives equal bytes
RenderVisiting(order) == ApplyPixels([c \in SampleCoords |-> White], order)

\* UPDATE users SET last_edit_at = CURRENT_TIMESTAMP WHERE id = ?
Stamped(usr, userID, t) ==
    {IF r.id = userID THEN [r EXCEPT !.last_edit_at = TimeOf(CurrentTimestamp(t))] ELSE r :
        r \in usr}

\* a plausible slip: a plain INSERT into a canvas table without PRIMARY KEY (x, y)
SetPixelNoKey(cnv, hist, usr, x, y, color, userID, t, ok) ==
    IF ~ok THEN [canvas |-> cnv, edits |-> hist, users |-> usr, err |-> TRUE]
    ELSE [canvas |-> cnv \cup {[x |-> x, y |-> y, color |-> color, last_user_id |-> userID,
                                updated_at |-> CurrentTimestamp(t)]},
          edits |-> Append(hist, [id |-> Len(hist) + 1, x |-> x, y |-> y, color |-> color,
                                  user_id |-> userID, created_at |-> CurrentTimestamp(t)]),
          users |-> {IF r.id = userID
                     THEN [r EXCEPT !.last_edit_at = TimeOf(CurrentTimestamp(t))]
                     ELSE r : r \in usr},
          err |-> FALSE]

\* a plausible slip: the transaction leaves users.last_edit_at alone
SetPixelNoStamp(cnv, hist, usr, x, y, color, userID, t, ok) ==
    IF ~ok THEN [canvas |-> cnv, edits |-> hist, users |-> usr, err |-> TRUE]
    ELSE [canvas |-> {r \in cnv : ~(r.x = x /\ r.y = y)}
                        \cup {[x |-> x, y |-> y, color |-> color, last_user_id |-> userID,
                               updated_at |-> CurrentTimestamp(t)]},
          edits |-> Append(hist, [id |-> Len(hist) + 1, x |-> x, y |-> y, color |-> color,
                                  user_id |-> userID, created_at |-> CurrentTimestamp(t)]),
          users |-> usr,
          err |-> FALSE]

\* SetPixel: one transaction; a failure anywhere rolls all of it back
SetPixel(cnv, hist, usr, x, y, color, userID, t, ok) ==
    IF ~ok THEN [canvas |-> cnv, edits |-> hist, users |-> usr, err |-> TRUE]
    ELSE [canvas |-> {r \in cnv : ~(r.x = x /\ r.y = y)}
                        \cup {[x |-> x, y |-> y, color |-> color, last_user_id |-> userID,
                               updated_at |-> CurrentTimestamp(t)]},
          edits |-> Append(hist, [id |-> Len(hist) + 1, x |-> x, y |-> y, color |-> color,
                                  user_id |-> userID, created_at |-> CurrentTimestamp(t)]),
          users |-> {IF r.id = userID
                     THEN [r EXCEPT !.last_edit_at = TimeOf(CurrentTimestamp(t))]
                     ELSE r : r \in usr},
          err |-> FALSE]

\* a plausible slip: an entry aged exactly the TTL still counts as valid
CacheValidInclusive(cache, cacheTime, t) ==
    cache # <<>> /\ t - cacheTime <= Secs(imageCacheTTL)

\* canvas_handlers.go:32  imageCache != nil && time.Since(imageCacheTime) < imageCacheTTL
CacheValid(cache, cacheTime, t) == cache # <<>> /\ t - cacheTime < Secs(imageCacheTTL)

\* a plausible slip: the response is read back from the cache slot
ResponseFromCache(buf, cache) == cache

\* canvas_handlers.go:62  w.Write(buf.Bytes())
ResponseBody(buf, cache) == <<buf>>

\* a plausible slip: the entry is left in place for the TTL to expire it
InvalidateKeeps(cache) == cache

\* canvas_handlers.go:230  imageCache = nil
Invalidate(cache) == <<>>

\* what EditPixel checks between the eligibility check and SetPixel
ValidateEdit(body) ==
    IF ~body.json THEN "INVALID_JSON"
    ELSE IF ~ValidateCoordinate(body.x) THEN "INVALID_COORD"
    ELSE IF ~ValidateCoordinate(body.y) THEN "INVALID_COORD"
    ELSE IF ~ValidateColor(body.color) THEN "INVALID_COLOR"
    ELSE "ok"

\* the two EditPixel requests and the two GetCanvasImage requests in flight
Editors == {1, 2}
Readers == {1, 2}

\* sync.RWMutex, unlocked: nobody holds it shared, nobody holds it exclusive,
\* nobody is blocked in Lock
MuFree == [readers |-> {}, writer |-> <<>>, waiting |-> {}]

NoCacheOp == [op |-> "none", had |-> FALSE]

NoEditSeen ==
    [kind |-> "none", user |-> 0, at |-> 0, known |-> FALSE, pre |-> NullTime,
     canEdit |-> FALSE, nextEdit |-> NullTime, status |-> 0, code |-> "none"]

NoGetSeen ==
    [at |-> 0, status |-> 0, hit |-> FALSE, body |-> <<>>, pre |-> NoCacheOp, age |-> 0,
     slot |-> <<>>, code |-> "none"]

NoEditReq == [user |-> 0, body |-> <<>>]

NoEditLocals ==
    [checkedAt |-> -1, afterCommit |-> FALSE, canEdit |-> FALSE, committed |-> FALSE,
     invalidated |-> FALSE, gen |-> 0, status |-> 0, code |-> "none"]

NoGetLocals ==
    [mustSee |-> 0, pixels |-> {}, gen |-> 0, hit |-> FALSE, body |-> <<>>,
     bodyGen |-> 0, status |-> 0, slot |-> <<>>]

\* no transaction open
NoDB == [canvas |-> {}, edits |-> <<>>, users |-> {}]

NoTx ==
    [pc |-> "idle", reached |-> "none", user |-> 0, x |-> 0, y |-> 0, color |-> <<>>,
     began |-> 0, ended |-> 0, pre |-> NoDB, work |-> NoDB]

\* the SetPixel calls followed when they run together
TxCalls == {1, 2}

NoSweep == [pc |-> "idle", cutoff |-> 0, err |-> FALSE]

NoSweepSeen ==
    [seen |-> FALSE, at |-> 0, err |-> FALSE, calls |-> 0,
     preIP |-> {}, preUser |-> {}, postIP |-> {}, postUser |-> {}]

----------------------------------------------------------------------------
(* Channels, messages, pages, mail: the handlers and their count queries *)

DayTicks == Secs(24 * 60 * 60)
HourTicks == Secs(60 * 60)

\* the rows of a table kept in id order that satisfy P
RowsWhere(tbl, P(_)) == {i \in DOMAIN tbl : P(tbl[i])}

\* SELECT COUNT(*) FROM channels WHERE created_by = ? AND created_at > ?
\* without the created_at condition
CountUserChannelsEver(chs, userID, t) ==
    Cardinality({c \in chs : c.created_by = userID})

\* SELECT COUNT(*) FROM channels
\*  WHERE created_by = ? AND created_at > datetime('now', '-1 day')
CountUserChannelsToday(chs, userID, t) ==
    Cardinality({c \in chs : /\ c.created_by = userID
                             /\ c.created_at > CurrentTimestamp(t) - DayTicks})

\* SELECT COUNT(*) FROM messages
\*  WHERE user_id = ? AND created_at > datetime('now', '-1 hour')
CountUserMessagesLastHour(msgs, userID, t) ==
    LET Recent(m) == /\ m.user_id = userID
                     /\ m.created_at > CurrentTimestamp(t) - HourTicks
    IN Cardinality(RowsWhere(msgs, Recent))

CountUserPageUpdatesToday(upd, userID, t) ==
    LET Recent(u) == /\ u.user_id = userID
                     /\ u.created_at > CurrentTimestamp(t) - DayTicks
    IN Cardinality(RowsWhere(upd, Recent))

CountMailSentToday(sends, userID, t) ==
    LET Recent(m) == /\ m.user_id = userID
                     /\ m.created_at > CurrentTimestamp(t) - DayTicks
    IN Cardinality(RowsWhere(sends, Recent))

\* a name is [id, upper, len, charset]: id names the lower-case spelling,
\* upper says the spelling has capitals; strings.ToLower
ToLower(name) == [name EXCEPT !.upper = FALSE]

\* ChannelNameRegex ^[a-z0-9-]{3,32}$
ValidateChannelName(name) ==
    /\ name.len >= 3
    /\ name.len <= 32
    /\ name.charset
    /\ ~name.upper

ChannelExists(chs, name) == \E c \in chs : c.name = name.id

\* GetChannel: the row of that name, joined to the user who created it
GetChannel(chs, usr, nameID) ==
    {c \in chs : c.name = nameID /\ \E u \in usr : u.id = c.created_by}

\* The CreateChannel handler, start to end.  fail: the statement that errors.
CreateChannel(chs, authed, userID, body, fail, t) ==
    LET count == CountUserChannelsToday(chs, userID, t)
        name == ToLower(body.name)
        out(code, gated, chs2) ==
            [channels |-> chs2, status |-> code, gated |-> gated,
             count |-> IF gated THEN count ELSE 0, created |-> chs2 # chs]
    IN
    IF ~authed THEN out(401, FALSE, chs)
    ELSE IF fail = "count" THEN out(500, FALSE, chs)
    ELSE IF count >= MaxChannelsPerDay THEN out(429, TRUE, chs)
    ELSE IF ~body.json THEN out(400, TRUE, chs)
    ELSE IF ~ValidateChannelName(name) THEN out(400, TRUE, chs)
    ELSE IF body.descLen > 256 THEN out(400, TRUE, chs)
    ELSE IF fail = "exists" THEN out(500, TRUE, chs)
    ELSE IF ChannelExists(chs, name) THEN out(409, TRUE, chs)
    ELSE IF fail = "create" THEN out(500, TRUE, chs)
    ELSE out(201, TRUE,
             chs \cup {[name |-> name.id, created_by |-> userID,
                        created_at |-> CurrentTimestamp(t)]})

\* PostMessage with count > 10 in place of count >= 10
PostMessageOffByOne(chs, msgs, usr, method, authed, userID, channelName, body, fail, t) ==
    LET count == CountUserMessagesLastHour(msgs, userID, t)
        out(code, gated, msgs2) ==
            [messages |-> msgs2, status |-> code, gated |-> gated,
             count |-> IF gated THEN count ELSE 0, created |-> msgs2 # msgs]
    IN
    IF method # "POST" THEN out(405, FALSE, msgs)
    ELSE IF ~authed THEN out(401, FALSE, msgs)
    ELSE IF channelName = 0 THEN out(400, FALSE, msgs)
    ELSE IF fail = "count" THEN out(500, FALSE, msgs)
    ELSE IF count > MaxMessagesPerHour THEN out(429, TRUE, msgs)
    ELSE IF GetChannel(chs, usr, channelName) = {} THEN out(404, TRUE, msgs)
    ELSE IF ~body.json THEN out(400, TRUE, msgs)
    ELSE IF body.len < 1 THEN out(400, TRUE, msgs)
    ELSE IF body.len > 1000 THEN out(400, TRUE, msgs)
    ELSE IF fail = "create" THEN out(500, TRUE, msgs)
    ELSE out(201, TRUE,
             Append(msgs, [channel |-> channelName, user_id |-> userID,
                           created_at |-> CurrentTimestamp(t)]))

\* The PostMessage handler, start to end.  channelName 0 is the empty path
\* segment; fail: the statement that errors.
PostMessage(chs, msgs, usr, method, authed, userID, channelName, body, fail, t) ==
    LET count == CountUserMessagesLastHour(msgs, userID, t)
        out(code, gated, msgs2) ==
            [messages |-> msgs2, status |-> code, gated |-> gated,
             count |-> IF gated THEN count ELSE 0, created |-> msgs2 # msgs]
    IN
    IF method # "POST" THEN out(405, FALSE, msgs)
    ELSE IF ~authed THEN out(401, FALSE, msgs)
    ELSE IF channelName = 0 THEN out(400, FALSE, msgs)
    ELSE IF fail = "count" THEN out(500, FALSE, msgs)
    ELSE IF count >= MaxMessagesPerHour THEN out(429, TRUE, msgs)
    ELSE IF GetChannel(chs, usr, channelName) = {} THEN out(404, TRUE, msgs)
    ELSE IF ~body.json THEN out(400, TRUE, msgs)
    ELSE IF body.len < 1 THEN out(400, TRUE, msgs)
    ELSE IF body.len > 1000 THEN out(400, TRUE, msgs)
    ELSE IF fail = "create" THEN out(500, TRUE, msgs)
    ELSE out(201, TRUE,
             Append(msgs, [channel |-> channelName, user_id |-> userID,
                           created_at |-> CurrentTimestamp(t)]))

\* INSERT INTO pages ... ON CONFLICT (user_id) DO UPDATE
UpsertPage(pgs, userID, t) ==
    {p \in pgs : p.user_id # userID}
    \cup {[user_id |-> userID, updated_at |-> CurrentTimestamp(t),
           created_at |-> IF \E p \in pgs : p.user_id = userID
                          THEN (CHOOSE p \in pgs : p.user_id = userID).created_at
                          ELSE CurrentTimestamp(t)]}

\* The UpdatePage handler, start to end.  The error of RecordPageUpdate is
\* dropped: with fail = "record" the page is saved and no update is recorded.
UpdatePage(pgs, upd, authed, userID, body, fail, t) ==
    LET count == CountUserPageUpdatesToday(upd, userID, t)
        out(code, gated, pgs2, upd2) ==
            [pages |-> pgs2, pageUpdates |-> upd2, status |-> code, gated |-> gated,
             count |-> IF gated THEN count ELSE 0, created |-> code = 200]
    IN
    IF ~authed THEN out(401, FALSE, pgs, upd)
    ELSE IF fail = "count" THEN out(500, FALSE, pgs, upd)
    ELSE IF count >= GetRateLimits.PageUpdatesPerDay THEN out(429, TRUE, pgs, upd)
    ELSE IF ~body.readOK THEN out(400, TRUE, pgs, upd)
    ELSE IF body.len > MaxPageSize THEN out(413, TRUE, pgs, upd)
    ELSE IF body.len = 0 THEN out(400, TRUE, pgs, upd)
    ELSE IF fail = "create" THEN out(500, TRUE, pgs, upd)
    ELSE out(200, TRUE, UpsertPage(pgs, userID, t),
             IF fail = "record" THEN upd
             ELSE Append(upd, [user_id |-> userID, created_at |-> CurrentTimestamp(t)]))

\* The SendMail handler, start to end.  body.to is 0 for an empty recipient,
\* else a username.  The error of RecordMailSend is dropped.
SendMail(usr, ml, sends, authed, userID, body, fail, t) ==
    LET count == CountMailSentToday(sends, userID, t)
        self == CHOOSE u \in usr : u.id = userID
        to == {u \in usr : u.username = body.to}
        out(code, gated, ml2, sends2) ==
            [mail |-> ml2, mailSends |-> sends2, status |-> code, gated |-> gated,
             count |-> IF gated THEN count ELSE 0, created |-> code = 201]
    IN
    IF ~authed THEN out(401, FALSE, ml, sends)
    ELSE IF ~body.json THEN out(400, FALSE, ml, sends)
    ELSE IF body.to = 0 THEN out(400, FALSE, ml, sends)
    ELSE IF body.to = self.username THEN out(400, FALSE, ml, sends)
    ELSE IF body.len = 0 THEN out(400, FALSE, ml, sends)
    ELSE IF body.len > MaxMailSize THEN out(413, FALSE, ml, sends)
    ELSE IF fail = "count" THEN out(500, FALSE, ml, sends)
    ELSE IF count >= GetRateLimits.MailSendsPerDay THEN out(429, TRUE, ml, sends)
    ELSE IF to = {} THEN out(404, TRUE, ml, sends)
    ELSE IF fail = "create" THEN out(500, TRUE, ml, sends)
    ELSE out(201, TRUE,
             Append(ml, [from_user_id |-> userID,
                         to_user_id |-> (CHOOSE u \in to : TRUE).id,
                         created_at |-> CurrentTimestamp(t)]),
             IF fail = "record" THEN sends
             ELSE Append(sends, [user_id |-> userID, created_at |-> CurrentTimestamp(t)]))

ChanProcs == {1, 2}

NoReq ==
    [flow |-> "none", user |-> 0, at |-> 0, status |-> 0, gated |-> FALSE,
     count |-> 0, created |-> FALSE, pre |-> <<>>, refAllowed |-> FALSE]

NoChanReq == [pc |-> "idle", user |-> 0, name |-> 0, count |-> 0, status |-> 0]

\* the process just started: empty tables, imageCache nil, no request in flight
InitCanvasIdle ==
    /\ canvas = {}
    /\ edits = <<>>
    /\ imageCache = <<>>
    /\ imageCacheTime = 0
    /\ imageCacheMu = MuFree
    /\ canvasGen = 0
    /\ cacheGen = 0
    /\ invalidatedGen = 0
    /\ lastCacheOp = NoCacheOp
    /\ lastEdit = NoEditSeen
    /\ lastGet = NoGetSeen
    /\ epc = [e \in Editors |-> "idle"]
    /\ ereq = [e \in Editors |-> NoEditReq]
    /\ eloc = [e \in Editors |-> NoEditLocals]
    /\ rpc = [r \in Readers |-> "idle"]
    /\ rloc = [r \in Readers |-> NoGetLocals]
    /\ tx = NoTx
    /\ txs = [c \in TxCalls |-> NoTx]
    /\ sweep = NoSweep
    /\ lastSweep = NoSweepSeen
    /\ lastReq = NoReq
    /\ qreq = [p \in ChanProcs |-> NoChanReq]

\* no channel, message, page or mail yet
InitQuotaIdle ==
    /\ channels = {}
    /\ messages = <<>>
    /\ pages = {}
    /\ pageUpdates = <<>>
    /\ mail = <<>>
    /\ mailSends = <<>>
    /\ refLedger = {}

----------------------------------------------------------------------------
(* Requests issued one after another: each action is a whole call *)

NoCall ==
    [fn |-> "none", checked |-> FALSE, t |-> 0, pre |-> {}, post |-> {},
     allowed |-> FALSE, err |-> FALSE, status |-> 0, created |-> FALSE]

\* The instants the clock visits: around the boundary of a window begun at 0,
\* and around the boundary of the window begun by the reset that follows it
Instants(w) ==
    {0, 1, Secs(100), Secs(w) - 1, Secs(w), Secs(w) + 1, Secs(w + 1),
     2 * Secs(w) + 1, 2 * Secs(w) + 2}

Windows == {SmallWindow, RegisterWindowSeconds}

LedgerConfigs ==
    {[fn |-> f, limit |-> l, window |-> w, start |-> 0] :
        f \in {"ip", "user"}, l \in 1..MaxLimit, w \in Windows}
    \cup {[fn |-> "register", limit |-> RegistrationsPerDay,
           window |-> RegisterWindowSeconds, start |-> 0]}

\* the observers after a rate-limit check at time t that read `pre`
Observe(pre, t) ==
    LET elapsed == \E r \in pre : t - r.window_start > Secs(cfg.window) IN
    /\ nCalls' = nCalls + 1
    /\ firstAt' = IF firstAt = -1 THEN t ELSE firstAt
    /\ resetAt' = IF elapsed THEN t ELSE resetAt
    /\ sinceReset' = IF elapsed THEN 1
                     ELSE IF resetAt # -1 THEN sinceReset + 1 ELSE 0

CallCheckIPRateLimit ==
    /\ cfg.fn = "ip"
    /\ nCalls < cfg.limit + ExtraCalls
    /\ \E ip \in IPs, action \in IPActions :
         LET pre == SelectRow(ipLimits, ip, action)
             r == CheckIPRateLimit(ipLimits, pre, ip, action, cfg.limit, cfg.window, now,
                                   "none")
         IN /\ ipLimits' = r.tbl
            /\ lastCall' = [fn |-> "ip", checked |-> TRUE, t |-> now, pre |-> pre,
                            post |-> SelectRow(r.tbl, ip, action),
                            allowed |-> r.allowed, err |-> r.err, status |-> 0,
                            created |-> FALSE]
            /\ Observe(pre, now)
    /\ UNCHANGED <<now, cfg, userLimits, users, procVars, canvasVars>>
    /\ UNCHANGED restVars

CallCheckUserRateLimit ==
    /\ cfg.fn = "user"
    /\ nCalls < cfg.limit + ExtraCalls
    /\ \E userID \in UserIDs, action \in UserActions :
         LET pre == SelectRow(userLimits, userID, action)
             r == CheckUserRateLimit(userLimits, pre, userID, action, cfg.limit,
                                     cfg.window, now, "none")
         IN /\ userLimits' = r.tbl
            /\ lastCall' = [fn |-> "user", checked |-> TRUE, t |-> now, pre |-> pre,
                            post |-> SelectRow(r.tbl, userID, action),
                            allowed |-> r.allowed, err |-> r.err, status |-> 0,
                            created |-> FALSE]
            /\ Observe(pre, now)
    /\ UNCHANGED <<now, cfg, ipLimits, users, procVars, canvasVars>>
    /\ UNCHANGED restVars

\* the request bodies tried: a fresh valid name, a taken one, malformed ones
RegisterBodies(usr) ==
    {[json |-> j, username |-> [id |-> i, len |-> 5, charset |-> TRUE, reserved |-> FALSE]] :
        j \in BOOLEAN, i \in {Cardinality(usr), Cardinality(usr) - 1} \ {0}}
    \cup {[json |-> TRUE, username |-> [id |-> 0, len |-> l, charset |-> c, reserved |-> FALSE]] :
        l \in {2, 33}, c \in BOOLEAN}
    \cup {[json |-> TRUE, username |-> [id |-> 0, len |-> 6, charset |-> TRUE, reserved |-> TRUE]]}

RegisterRequest ==
    /\ cfg.fn = "register"
    /\ nCalls < cfg.limit + ExtraCalls
    /\ \E ip \in IPs, body \in RegisterBodies(users), tokenOK \in BOOLEAN :
         LET pre == SelectRow(ipLimits, ip, "register")
             r == Register(ipLimits, users, ip, body, tokenOK, "none", now)
         IN /\ ipLimits' = r.ipLimits
            /\ users' = r.users
            /\ lastCall' = [fn |-> "register", checked |-> r.checked, t |-> now,
                            pre |-> pre, post |-> SelectRow(r.ipLimits, ip, "register"),
                            allowed |-> r.allowed, err |-> r.err, status |-> r.status,
                            created |-> r.users # users]
            /\ IF r.checked THEN Observe(pre, now)
               ELSE UNCHANGED <<nCalls, firstAt, resetAt, sinceReset>>
    /\ UNCHANGED <<now, cfg, userLimits, procVars, canvasVars>>
    /\ UNCHANGED restVars

LedgerTick ==
    /\ \E t \in Instants(cfg.window) : t > now /\ now' = t
    /\ UNCHANGED <<cfg, ledgerVars, obsVars, procVars, canvasVars>>
    /\ UNCHANGED restVars

InitBase ==
    /\ now = 0
    /\ ipLimits = {}
    /\ userLimits = {}
    /\ users = {SystemUser}
    /\ lastCall = NoCall
    /\ nCalls = 0
    /\ firstAt = -1
    /\ resetAt = -1
    /\ sinceReset = 0
    /\ pc = [p \in Procs |-> "idle"]
    /\ pnow = [p \in Procs |-> 0]
    /\ pread = [p \in Procs |-> {}]
    /\ pres = [p \in Procs |-> [allowed |-> FALSE, err |-> FALSE]]
    /\ InitCanvasIdle
    /\ InitQuotaIdle

InitLedger == InitBase /\ cfg \in LedgerConfigs

NextLedger ==
    \/ CallCheckIPRateLimit
    \/ CallCheckUserRateLimit
    \/ RegisterRequest
    \/ LedgerTick

SpecLedger == InitLedger /\ [][NextLedger]_vars

----------------------------------------------------------------------------
(* Claims on calls issued one after another (SpecLedger) *)

RowOf(rows) == CHOOSE r \in rows : TRUE

\* lastCall is a rate-limit check that found a counter
FoundCounter == lastCall.checked /\ lastCall.pre # {}

\* the age of the counter the last check found
AgeFound == lastCall.t - RowOf(lastCall.pre).window_start

C5_ResetAtBoundary ==
    (FoundCounter /\ AgeFound >= Secs(cfg.window)) =>
        /\ lastCall.allowed
        /\ lastCall.post = {[RowOf(lastCall.pre) EXCEPT !.count = 1,
                                                        !.window_start = lastCall.t]}

\* C5 amended: the reset happens when t - window_start > window; at
\* t - window_start = window the counter still counts as inside its window.
C5_ResetAfterBoundary ==
    FoundCounter =>
        LET old == RowOf(lastCall.pre) IN
        /\ AgeFound > Secs(cfg.window) =>
              /\ lastCall.allowed
              /\ ~lastCall.err
              /\ lastCall.post = {[old EXCEPT !.count = 1, !.window_start = lastCall.t]}
        /\ AgeFound = Secs(cfg.window) =>
              /\ lastCall.allowed = (old.count < cfg.limit)
              /\ lastCall.post =
                    {[old EXCEPT !.count = IF old.count < cfg.limit THEN old.count + 1
                                           ELSE old.count]}

C5_Witness ==
    /\ FoundCounter
    /\ AgeFound > Secs(cfg.window)
    /\ RowOf(lastCall.pre).count >= cfg.limit
    /\ lastCall.allowed
    /\ RowOf(lastCall.post).count = 1
    /\ RowOf(lastCall.post).window_start = lastCall.t

\* C9: a check that finds the counter inside its window with count >= limit
\* is denied and leaves the counter as it was.
C9_DeniedMutatesNothing ==
    (FoundCounter /\ AgeFound < Secs(cfg.window)
        /\ RowOf(lastCall.pre).count >= cfg.limit) =>
        /\ ~lastCall.allowed
        /\ ~lastCall.err
        /\ lastCall.post = lastCall.pre

C9_Witness ==
    /\ FoundCounter
    /\ AgeFound > 0
    /\ AgeFound < Secs(cfg.window)
    /\ RowOf(lastCall.pre).count >= cfg.limit
    /\ ~lastCall.allowed
    /\ lastCall.post = lastCall.pre

\* C10: the check that meets an elapsed window (more than one window after
\* window_start) is allowed and counted as 1, and of the checks that follow it
\* less than one window later exactly limit - 1 are allowed; and the scenario
\* limit = 5, W = 86400: calls 1-5 at t = 0, denied at t = 100, reset at t = 86401.
C10_HardReset ==
    /\ (lastCall.checked /\ resetAt # -1 /\ lastCall.t - resetAt < Secs(cfg.window)) =>
          /\ lastCall.allowed = (sinceReset <= cfg.limit)
          /\ RowOf(lastCall.post).window_start = resetAt
          /\ RowOf(lastCall.post).count = IF sinceReset <= cfg.limit THEN sinceReset
                                           ELSE cfg.limit
    /\ (lastCall.checked /\ cfg.limit = 5 /\ cfg.window = 86400) =>
          /\ (lastCall.t = 0 /\ nCalls <= 5) =>
                /\ lastCall.allowed
                /\ RowOf(lastCall.post).count = nCalls
                /\ RowOf(lastCall.post).window_start = 0
          /\ (lastCall.t = Secs(100) /\ nCalls = 6 /\ firstAt = 0
                /\ RowOf(lastCall.pre).count = 5) => ~lastCall.allowed
          /\ (lastCall.t = Secs(86401) /\ FoundCounter /\ RowOf(lastCall.pre).count = 5
                /\ RowOf(lastCall.pre).window_start = 0) =>
                /\ lastCall.allowed
                /\ RowOf(lastCall.post).count = 1
                /\ RowOf(lastCall.post).window_start = Secs(86401)

C10_Witness ==
    /\ cfg.limit = 5 /\ cfg.window = 86400
    /\ lastCall.checked
    /\ nCalls = 7
    /\ lastCall.t = Secs(86401)
    /\ RowOf(lastCall.pre).count = 5
    /\ RowOf(lastCall.pre).window_start = 0
    /\ lastCall.allowed
    /\ RowOf(lastCall.post).count = 1
    /\ RowOf(lastCall.post).window_start = Secs(86401)

----------------------------------------------------------------------------
(* Concurrent rate-limit checks on one (subject, action): every request is   *)
(* a goroutine; time.Now(), the SELECT and the INSERT / UPDATE are separate  *)
(* steps, and each statement is atomic in the store.                         *)

ConcIP == "1.2.3.4"
ConcUser == 2
ConcIPAction == "register"
ConcUserAction == "post_message"

\* the counter the behaviour starts from: none, or one begun at time 0
StartRows(s, a, c) ==
    IF c = 0 THEN {}
    ELSE {[subject |-> s, action |-> a, count |-> c, window_start |-> 0]}

ConcConfigs ==
    {[fn |-> f, limit |-> l, window |-> w, start |-> c] :
        f \in {"ip", "user"}, l \in 1..MaxLimit, w \in Windows, c \in 0..MaxLimit}

ConcInstants(w) == {0, 1, Secs(w) + 1}

\* ratelimit.go:11 / :60  now := time.Now()
StartCheck(p) ==
    /\ pc[p] = "idle"
    /\ pc' = [pc EXCEPT ![p] = "select"]
    /\ pnow' = [pnow EXCEPT ![p] = now]
    /\ UNCHANGED <<now, cfg, ledgerVars, obsVars, pread, pres, canvasVars>>
    /\ UNCHANGED restVars

\* ratelimit.go:17 / :66  the SELECT
SelectStep(p) ==
    /\ pc[p] = "select"
    /\ pc' = [pc EXCEPT ![p] = "write"]
    /\ pread' = [pread EXCEPT ![p] =
                    IF cfg.fn = "ip" THEN SelectRow(ipLimits, ConcIP, ConcIPAction)
                    ELSE SelectRow(userLimits, ConcUser, ConcUserAction)]
    /\ UNCHANGED <<now, cfg, ledgerVars, obsVars, pnow, pres, canvasVars>>
    /\ UNCHANGED restVars

\* ratelimit.go:22-55 / :71-100  the branch taken on what was read, and its write
WriteStep(p) ==
    /\ pc[p] = "write"
    /\ pc' = [pc EXCEPT ![p] = "done"]
    /\ IF cfg.fn = "ip"
       THEN LET r == CheckIPRateLimit(ipLimits, pread[p], ConcIP, ConcIPAction,
                                      cfg.limit, cfg.window, pnow[p], "none")
            IN /\ ipLimits' = r.tbl
               /\ pres' = [pres EXCEPT ![p] = [allowed |-> r.allowed, err |-> r.err]]
               /\ UNCHANGED userLimits
       ELSE LET r == CheckUserRateLimit(userLimits, pread[p], ConcUser, ConcUserAction,
                                        cfg.limit, cfg.window, pnow[p], "none")
            IN /\ userLimits' = r.tbl
               /\ pres' = [pres EXCEPT ![p] = [allowed |-> r.allowed, err |-> r.err]]
               /\ UNCHANGED ipLimits
    /\ UNCHANGED <<now, cfg, users, obsVars, pnow, pread, canvasVars>>
    /\ UNCHANGED restVars

ConcTick ==
    /\ \E t \in ConcInstants(cfg.window) : t > now /\ now' = t
    /\ UNCHANGED <<cfg, ledgerVars, obsVars, procVars, canvasVars>>
    /\ UNCHANGED restVars

InitConc ==
    /\ cfg \in ConcConfigs
    /\ cfg.start <= cfg.limit
    /\ now = 0
    /\ ipLimits = IF cfg.fn = "ip" THEN StartRows(ConcIP, ConcIPAction, cfg.start) ELSE {}
    /\ userLimits = IF cfg.fn = "user" THEN StartRows(ConcUser, ConcUserAction, cfg.start)
                    ELSE {}
    /\ users = {SystemUser}
    /\ lastCall = NoCall
    /\ nCalls = 0
    /\ firstAt = -1
    /\ resetAt = -1
    /\ sinceReset = 0
    /\ pc = [p \in Procs |-> "idle"]
    /\ pnow = [p \in Procs |-> 0]
    /\ pread = [p \in Procs |-> {}]
    /\ pres = [p \in Procs |-> [allowed |-> FALSE, err |-> FALSE]]
    /\ InitCanvasIdle
    /\ InitQuotaIdle

NextConc ==
    \/ \E p \in Procs : StartCheck(p)
    \/ \E p \in Procs : SelectStep(p)
    \/ \E p \in Procs : WriteStep(p)
    \/ ConcTick

SpecConc == InitConc /\ [][NextConc]_vars

\* the requests that came back allowed, with no error
Successes == {p \in Procs : pc[p] = "done" /\ pres[p].allowed /\ ~pres[p].err}

\* the requests that came back denied or failed
Failures == {p \in Procs : pc[p] = "done" /\ ~(pres[p].allowed /\ ~pres[p].err)}

\* C1: while the requests all fall in one window, the counter they start from
\* and the requests allowed never add up to more than the limit, and once
\* all have returned exactly limit of them are allowed and the rest are not.
C1_NoLostUpdates ==
    now < Secs(cfg.window) =>
        /\ cfg.start + Cardinality(Successes) <= cfg.limit
        /\ (\A p \in Procs : pc[p] = "done") /\ cfg.start + NumProcs > cfg.limit =>
              /\ cfg.start + Cardinality(Successes) = cfg.limit
              /\ Cardinality(Failures) = NumProcs - (cfg.limit - cfg.start)


----------------------------------------------------------------------------
(* Rate-limit checks and registrations on a store that can fail, several    *)
(* keys in each table, calls issued one after another                       *)

MaxFaultCalls == 4

FaultIPs == {"1.2.3.4", "5.6.7.8"}
FaultIPActions == {"register", "login"}
FaultUsers == {2, 3}
FaultUserActions == {"post_message", "edit_pixel"}

\* the statement of a check that the store fails
StoreFaults == {"none", "query", "exec"}

\* start: the registrations the first address has made in second 0
FaultConfigs ==
    {[fn |-> "checks", limit |-> l, window |-> SmallWindow, start |-> 0] : l \in 1..MaxLimit}
    \cup {[fn |-> "register", limit |-> RegistrationsPerDay,
           window |-> RegisterWindowSeconds, start |-> RegistrationsPerDay - 1]}

FaultInstants(w) == {0, 1, Secs(w) + 1}

FaultyCheckIP ==
    /\ cfg.fn = "checks"
    /\ nCalls < MaxFaultCalls
    /\ \E ip \in FaultIPs, action \in FaultIPActions, fail \in StoreFaults :
         LET pre == SelectRow(ipLimits, ip, action) IN
         \E r \in {CheckIPRateLimit(ipLimits, pre, ip, action, cfg.limit, cfg.window, now,
                                     fail)} :
            /\ ipLimits' = r.tbl
            /\ lastCall' = [fn |-> "ip", checked |-> TRUE, t |-> now, pre |-> pre,
                            post |-> SelectRow(r.tbl, ip, action),
                            allowed |-> r.allowed, err |-> r.err, status |-> 0,
                            created |-> FALSE]
            /\ Observe(pre, now)
    /\ UNCHANGED <<now, cfg, userLimits, users, procVars, canvasVars>>
    /\ UNCHANGED restVars

FaultyCheckUser ==
    /\ cfg.fn = "checks"
    /\ nCalls < MaxFaultCalls
    /\ \E userID \in FaultUsers, action \in FaultUserActions, fail \in StoreFaults :
         LET pre == SelectRow(userLimits, userID, action) IN
         \E r \in {CheckUserRateLimit(userLimits, pre, userID, action, cfg.limit,
                                       cfg.window, now, fail)} :
            /\ userLimits' = r.tbl
            /\ lastCall' = [fn |-> "user", checked |-> TRUE, t |-> now, pre |-> pre,
                            post |-> SelectRow(r.tbl, userID, action),
                            allowed |-> r.allowed, err |-> r.err, status |-> 0,
                            created |-> FALSE]
            /\ Observe(pre, now)
    /\ UNCHANGED <<now, cfg, ipLimits, users, procVars, canvasVars>>
    /\ UNCHANGED restVars

\* the registrations tried: a good one, the good one with one thing wrong, and
\* the good one with the store failing at each of its statements
FaultyRegisterRequests(usr) ==
    LET fresh == [id |-> Cardinality(usr), len |-> 5, charset |-> TRUE, reserved |-> FALSE]
        good == [json |-> TRUE, username |-> fresh, tokenOK |-> TRUE, fail |-> "none"]
    IN {good, [good EXCEPT !.json = FALSE], [good EXCEPT !.username.len = 2],
        [good EXCEPT !.username.id = 0, !.username.reserved = TRUE],
        [good EXCEPT !.username.id = Cardinality(usr) - 1], [good EXCEPT !.tokenOK = FALSE]}
       \cup {[good EXCEPT !.fail = f] : f \in {"query", "exec", "exists", "create"}}

FaultyRegister ==
    /\ cfg.fn = "register"
    /\ nCalls < MaxFaultCalls
    /\ \E ip \in FaultIPs, q \in FaultyRegisterRequests(users) :
         LET pre == SelectRow(ipLimits, ip, "register") IN
         \E r \in {Register(ipLimits, users, ip, q, q.tokenOK, q.fail, now)} :
            /\ ipLimits' = r.ipLimits
            /\ users' = r.users
            /\ lastCall' = [fn |-> "register", checked |-> r.checked, t |-> now,
                            pre |-> pre, post |-> SelectRow(r.ipLimits, ip, "register"),
                            allowed |-> r.allowed, err |-> r.err, status |-> r.status,
                            created |-> r.users # users]
            /\ IF r.checked THEN Observe(pre, now)
               ELSE UNCHANGED <<nCalls, firstAt, resetAt, sinceReset>>
    /\ UNCHANGED <<now, cfg, userLimits, procVars, canvasVars>>
    /\ UNCHANGED restVars

FaultTick ==
    /\ \E t \in FaultInstants(cfg.window) : t > now /\ now' = t
    /\ UNCHANGED <<cfg, ledgerVars, obsVars, procVars, canvasVars>>
    /\ UNCHANGED restVars

\* the users the registrations before the behaviour created, ids from 2
StartUsers(n) ==
    {SystemUser} \cup {[id |-> i + 1, username |-> i, last_edit_at |-> NullTime] : i \in 1..n}

InitFaults ==
    /\ cfg \in FaultConfigs
    /\ now = 0
    /\ ipLimits = IF cfg.fn = "register" THEN StartRows("1.2.3.4", "register", cfg.start)
                  ELSE {}
    /\ userLimits = {}
    /\ users = IF cfg.fn = "register" THEN StartUsers(cfg.start) ELSE {SystemUser}
    /\ lastCall = NoCall
    /\ nCalls = 0
    /\ firstAt = -1
    /\ resetAt = -1
    /\ sinceReset = 0
    /\ pc = [p \in Procs |-> "idle"]
    /\ pnow = [p \in Procs |-> 0]
    /\ pread = [p \in Procs |-> {}]
    /\ pres = [p \in Procs |-> [allowed |-> FALSE, err |-> FALSE]]
    /\ InitCanvasIdle
    /\ InitQuotaIdle

NextFaults ==
    \/ FaultyCheckIP
    \/ FaultyCheckUser
    \/ FaultyRegister
    \/ FaultTick

SpecFaults == InitFaults /\ [][NextFaults]_vars

\* C22: whenever CheckIPRateLimit returns an error, from the lookup, the
\* first insert, the reset or the increment, Register creates no user and
\* answers 500; a user is created only by a request whose rate-limit check
\* returned allowed = true with no error, and that request answers 201.
C22_RegisterFailsClosed ==
    lastCall.fn = "register" =>
        /\ (lastCall.checked /\ lastCall.err) =>
              (lastCall.status = 500 /\ ~lastCall.created)
        /\ lastCall.created =>
              (lastCall.checked /\ lastCall.allowed /\ ~lastCall.err)
        /\ lastCall.created <=> (lastCall.status = 201)

\* the increment failed: the check returned allowed = true with an error, and
\* the request was answered 500, no user created, the counter as it was
C22_Witness ==
    /\ lastCall.fn = "register"
    /\ lastCall.checked
    /\ lastCall.err
    /\ lastCall.allowed
    /\ lastCall.pre # {}
    /\ RowOf(lastCall.pre).count < RegistrationsPerDay
    /\ lastCall.post = lastCall.pre
    /\ lastCall.status = 500

\* the last request was a Register answered 400: the step that made it
\* (and a clock step after it)
C27_Step ==
    (lastCall'.fn = "register" /\ lastCall'.status = 400) =>
        /\ ~lastCall'.checked
        /\ lastCall'.post = lastCall'.pre
        /\ UNCHANGED <<ipLimits, userLimits, users>>

\* C27: a Register request rejected because its JSON body is invalid or its
\* username fails validation leaves the (ip, "register") counter unchanged,
\* count and window_start: the validation runs before the rate-limit check.
C27_InvalidRegistrationUncounted == [][C27_Step]_vars

\* an address one registration short of its limit was answered 400, and its
\* counter is as it was
C27_Witness ==
    /\ lastCall.fn = "register"
    /\ lastCall.status = 400
    /\ lastCall.pre # {}
    /\ RowOf(lastCall.pre).count = RegistrationsPerDay - 1
    /\ SelectRow(ipLimits, "1.2.3.4", "register") = lastCall.pre
    /\ ~lastCall.created

\* the rows of tbl that the step to tblNext removed or changed, and those it
\* added or changed, are rows of the key the call consulted
OnlyConsultedKey(tbl, tblNext) ==
    /\ tbl \ tblNext \subseteq lastCall'.pre
    /\ tblNext \ tbl \subseteq lastCall'.post
    /\ \A r \in lastCall'.pre \cup lastCall'.post, q \in lastCall'.pre \cup lastCall'.post :
        r.subject = q.subject /\ r.action = q.action

C30_Step ==
    /\ lastCall'.fn \in {"ip", "register"} =>
           OnlyConsultedKey(ipLimits, ipLimits') /\ userLimits' = userLimits
    /\ lastCall'.fn = "user" =>
           OnlyConsultedKey(userLimits, userLimits') /\ ipLimits' = ipLimits
    /\ lastCall'.fn \notin {"ip", "register", "user"} =>
           ipLimits' = ipLimits /\ userLimits' = userLimits

\* C30: a check on (subject, action), allowed, denied or failing, creates,
\* changes and deletes no counter of any other (subject, action) pair, and a
\* check on one of the two tables leaves the other table as it was.
C30_CountersIndependent == [][C30_Step]_vars

\* counters of two actions of one address and a user counter stand, and the
\* last check counted a further request against one of the address's two
C30_Witness ==
    /\ lastCall.fn = "ip"
    /\ lastCall.allowed /\ ~lastCall.err
    /\ lastCall.pre # {} /\ lastCall.post # lastCall.pre
    /\ RowOf(lastCall.post).count = 2
    /\ \E r \in ipLimits : r.subject = RowOf(lastCall.post).subject
                             /\ r.action # RowOf(lastCall.post).action
    /\ userLimits # {}

----------------------------------------------------------------------------
(* The canvas handlers, start to end *)

\* a plausible slip: the cooldown is consumed at the eligibility check, as a
\* quota counter would be, before the request is validated
EditPixelStampsOnCheck(cnv, hist, usr, cache, authed, userID, body, dbOK, t) ==
    LET chk == CanUserEditNow(usr, userID, t)
        stamped == Stamped(usr, userID, t)
        Refuse(status, code, checked, usr2) ==
            [canvas |-> cnv, edits |-> hist, users |-> usr2, imageCache |-> cache,
             status |-> status, code |-> code, wrote |-> FALSE,
             known |-> checked /\ ~chk.err,
             canEdit |-> checked /\ chk.canEdit,
             nextEdit |-> IF checked THEN chk.nextEdit ELSE NullTime,
             next_edit_at |-> NullTime]
    IN
    IF ~authed THEN Refuse(401, "AUTH_REQUIRED", FALSE, usr)
    ELSE IF chk.err THEN Refuse(500, "DB_ERROR", TRUE, usr)
    ELSE IF ~chk.canEdit THEN Refuse(429, "RATE_LIMITED", TRUE, usr)
    ELSE IF ValidateEdit(body) # "ok" THEN Refuse(400, ValidateEdit(body), TRUE, stamped)
    ELSE LET set == SetPixel(cnv, hist, usr, body.x, body.y, body.color, userID, t, dbOK) IN
         IF set.err THEN Refuse(500, "DB_ERROR", TRUE, stamped)
         ELSE [canvas |-> set.canvas, edits |-> set.edits, users |-> set.users,
               imageCache |-> Invalidate(cache),
               status |-> 200, code |-> "ok", wrote |-> TRUE,
               known |-> TRUE, canEdit |-> TRUE, nextEdit |-> NullTime,
               next_edit_at |-> TimeOf(t + CooldownTicks)]

\* EditPixel.  authed: the middleware put a user in the context.
\* dbOK: the SetPixel transaction goes through.
EditPixel(cnv, hist, usr, cache, authed, userID, body, dbOK, t) ==
    LET chk == CanUserEditNow(usr, userID, t)
        Refuse(status, code, checked) ==
            [canvas |-> cnv, edits |-> hist, users |-> usr, imageCache |-> cache,
             status |-> status, code |-> code, wrote |-> FALSE,
             known |-> checked /\ ~chk.err,
             canEdit |-> checked /\ chk.canEdit,
             nextEdit |-> IF checked THEN chk.nextEdit ELSE NullTime,
             next_edit_at |-> NullTime]
    IN
    IF ~authed THEN Refuse(401, "AUTH_REQUIRED", FALSE)
    ELSE IF chk.err THEN Refuse(500, "DB_ERROR", TRUE)
    ELSE IF ~chk.canEdit THEN Refuse(429, "RATE_LIMITED", TRUE)
    ELSE IF ValidateEdit(body) # "ok" THEN Refuse(400, ValidateEdit(body), TRUE)
    ELSE LET set == SetPixel(cnv, hist, usr, body.x, body.y, body.color, userID, t, dbOK) IN
         IF set.err THEN Refuse(500, "DB_ERROR", TRUE)
         ELSE [canvas |-> set.canvas, edits |-> set.edits, users |-> set.users,
               imageCache |-> Invalidate(cache),
               status |-> 200, code |-> "ok", wrote |-> TRUE,
               known |-> TRUE, canEdit |-> TRUE, nextEdit |-> NullTime,
               next_edit_at |-> TimeOf(t + CooldownTicks)]

\* a plausible slip: a failed regeneration drops the entry it could not replace
GetCanvasImageClearsOnError(cnv, cache, cacheTime, method, dbOK, renderOK, order, t) ==
    LET out(cache2, time2, status, code, body, hit) ==
            [imageCache |-> cache2, imageCacheTime |-> time2, status |-> status,
             code |-> code, body |-> body, hit |-> hit,
             stored |-> status = 200 /\ ~hit]
    IN
    IF method # "GET" THEN out(cache, cacheTime, 405, "METHOD_NOT_ALLOWED", <<>>, FALSE)
    ELSE IF CacheValid(cache, cacheTime, t)
    THEN out(cache, cacheTime, 200, "none", cache, TRUE)
    ELSE IF ~dbOK THEN out(<<>>, cacheTime, 500, "DB_ERROR", <<>>, FALSE)
    ELSE IF ~renderOK THEN out(<<>>, cacheTime, 500, "RENDER_ERROR", <<>>, FALSE)
    ELSE LET buf == RenderVisiting(order) IN
         out(<<buf>>, t, 200, "none", <<buf>>, FALSE)

\* GetCanvasImage.  dbOK: the SELECT of GetAllPixels goes through; renderOK:
\* canvas.Render returns no error; order: how Render ranges over the pixels
\* GetAllPixels returned.
GetCanvasImage(cnv, cache, cacheTime, method, dbOK, renderOK, order, t) ==
    LET out(cache2, time2, status, code, body, hit) ==
            [imageCache |-> cache2, imageCacheTime |-> time2, status |-> status,
             code |-> code, body |-> body, hit |-> hit,
             stored |-> status = 200 /\ ~hit]
    IN
    IF method # "GET" THEN out(cache, cacheTime, 405, "METHOD_NOT_ALLOWED", <<>>, FALSE)
    ELSE IF CacheValid(cache, cacheTime, t)
    THEN out(cache, cacheTime, 200, "none", cache, TRUE)
    ELSE IF ~dbOK THEN out(cache, cacheTime, 500, "DB_ERROR", <<>>, FALSE)
    ELSE IF ~renderOK THEN out(cache, cacheTime, 500, "RENDER_ERROR", <<>>, FALSE)
    ELSE LET buf == RenderVisiting(order) IN
         out(<<buf>>, t, 200, "none", <<buf>>, FALSE)

----------------------------------------------------------------------------
(* Canvas requests issued one after another *)

CanvasUserIDs == {2, 3}
\* the user whose requests edit
EditingUsers == {2}

CanvasUsers ==
    {SystemUser} \cup {[id |-> u, username |-> u, last_edit_at |-> NullTime] : u \in CanvasUserIDs}

Red == <<"#", "F", "F", "0", "0", "0", "0">>
GreenBare == <<"0", "0", "f", "f", "0", "0">>
ShortColor == <<"#", "F", "F", "F">>
NotHex == <<"#", "G", "G", "0", "0", "0", "0">>

GoodBodies ==
    {[json |-> TRUE, x |-> 0, y |-> 0, color |-> Red],
     [json |-> TRUE, x |-> 0, y |-> 0, color |-> GreenBare],
     [json |-> TRUE, x |-> 0, y |-> CanvasSize - 1, color |-> GreenBare]}

BadBodies ==
    {[json |-> FALSE, x |-> 0, y |-> 0, color |-> <<>>],
     [json |-> TRUE, x |-> -1, y |-> 0, color |-> Red],
     [json |-> TRUE, x |-> 0, y |-> CanvasSize, color |-> Red],
     [json |-> TRUE, x |-> 0, y |-> 0, color |-> ShortColor],
     [json |-> TRUE, x |-> 0, y |-> 0, color |-> NotHex]}

EditBodies == GoodBodies \cup BadBodies

\* the instants the clock visits: around the cache TTL, around the cooldown
\* of an edit made in second 1000, and at the end of the cooldown after that
CanvasInstants ==
    {0, 1, Secs(imageCacheTTL),
     Secs(1000), Secs(1000) + 1,
     Secs(1000) + CooldownTicks - Secs(1),
     Secs(1000) + CooldownTicks, Secs(1000) + CooldownTicks + 1,
     Secs(1000) + 2 * CooldownTicks}

CanvasCfg == [fn |-> "canvas", limit |-> 0, window |-> 0, start |-> 0]

\* the clock moves on; the observers then describe no request of this instant
CanvasTick ==
    /\ \E t \in CanvasInstants : t > now /\ now' = t
    /\ lastEdit' = NoEditSeen
    /\ lastGet' = NoGetSeen
    /\ UNCHANGED <<cfg, ledgerVars, obsVars, procVars, storeVars, cacheVars, reqVars>>
    /\ UNCHANGED <<canvasGen, cacheGen, invalidatedGen, lastCacheOp>>
    /\ UNCHANGED restVars


\* the requests tried: every body from an authenticated user with the store
\* working, and a well-formed one unauthenticated or with the store failing
EditRequests ==
    {[authed |-> TRUE, body |-> b, dbOK |-> TRUE] : b \in EditBodies}
    \cup {[authed |-> a, body |-> b, dbOK |-> ~a] : a \in BOOLEAN, b \in {x \in GoodBodies : x.color = Red}}

EditPixelRequest ==
    /\ \E u \in EditingUsers, q \in EditRequests :
       \E r \in {EditPixel(canvas, edits, users, imageCache, q.authed, u, q.body, q.dbOK,
                            now)} :
        LET pre == (CHOOSE row \in UserRows(users, u) : TRUE).last_edit_at
        IN
        /\ Len(r.edits) <= MaxEdits
        /\ canvas' = r.canvas
        /\ edits' = r.edits
        /\ users' = r.users
        /\ imageCache' = r.imageCache
        /\ canvasGen' = Len(r.edits)
        /\ invalidatedGen' = IF r.wrote THEN Len(r.edits) ELSE invalidatedGen
        /\ lastCacheOp' = IF r.wrote
                          THEN [op |-> "invalidate", had |-> imageCache # <<>>]
                          ELSE lastCacheOp
        /\ lastEdit' = [kind |-> "EditPixel", user |-> u, at |-> now, known |-> r.known,
                        pre |-> pre, canEdit |-> r.canEdit, nextEdit |-> r.nextEdit,
                        status |-> r.status, code |-> r.code]
        /\ lastGet' = NoGetSeen
    /\ UNCHANGED <<now, cfg, ipLimits, userLimits, obsVars, procVars>>
    /\ UNCHANGED <<imageCacheTime, imageCacheMu, cacheGen, reqVars>>
    /\ UNCHANGED restVars

\* a good request, and the good one with one thing wrong
GetRequests ==
    LET good == [method |-> "GET", dbOK |-> TRUE, renderOK |-> TRUE]
    IN {good, [good EXCEPT !.method = "POST"], [good EXCEPT !.dbOK = FALSE],
        [good EXCEPT !.renderOK = FALSE]}

GetCanvasImageRequest ==
    /\ \E q \in GetRequests, order \in Orders(GetAllPixels(canvas)) :
       \E r \in {GetCanvasImage(canvas, imageCache, imageCacheTime, q.method, q.dbOK,
                                 q.renderOK, order, now)} :
        /\ imageCache' = r.imageCache
        /\ imageCacheTime' = r.imageCacheTime
        /\ cacheGen' = IF r.stored THEN canvasGen ELSE cacheGen
        /\ lastCacheOp' = IF r.stored THEN [op |-> "set", had |-> imageCache # <<>>]
                          ELSE lastCacheOp
        /\ lastGet' = [at |-> now, status |-> r.status, hit |-> r.hit, body |-> r.body,
                       pre |-> lastCacheOp, age |-> now - imageCacheTime,
                       slot |-> imageCache, code |-> r.code]
        /\ lastEdit' = NoEditSeen
    /\ UNCHANGED <<now, cfg, ledgerVars, obsVars, procVars, storeVars>>
    /\ UNCHANGED <<imageCacheMu, canvasGen, invalidatedGen, reqVars>>
    /\ UNCHANGED restVars

\* what a call of an eligibility check saw and returned
Checked(kind, u, r) ==
    [kind |-> kind, user |-> u, at |-> now, known |-> ~r.err,
     pre |-> IF r.err THEN NullTime
             ELSE (CHOOSE row \in UserRows(users, u) : TRUE).last_edit_at,
     canEdit |-> r.canEdit, nextEdit |-> r.nextEdit, status |-> 0, code |-> "none"]

CallCanUserEditNow ==
    /\ \E u \in CanvasUserIDs \cup {NextUserID(users)} :
        lastEdit' = Checked("CanUserEditNow", u, CanUserEditNow(users, u, now))
    /\ lastGet' = NoGetSeen
    /\ UNCHANGED <<now, cfg, ledgerVars, obsVars, procVars, storeVars, cacheVars, reqVars>>
    /\ UNCHANGED <<canvasGen, cacheGen, invalidatedGen, lastCacheOp>>
    /\ UNCHANGED restVars

CallCanUserEdit ==
    /\ \E u \in CanvasUserIDs \cup {NextUserID(users)} :
        lastEdit' = Checked("CanUserEdit", u, CanUserEdit(users, u, now))
    /\ lastGet' = NoGetSeen
    /\ UNCHANGED <<now, cfg, ledgerVars, obsVars, procVars, storeVars, cacheVars, reqVars>>
    /\ UNCHANGED <<canvasGen, cacheGen, invalidatedGen, lastCacheOp>>
    /\ UNCHANGED restVars

InitCanvasSeq ==
    /\ now = 0
    /\ cfg = CanvasCfg
    /\ ipLimits = {}
    /\ userLimits = {}
    /\ users = CanvasUsers
    /\ lastCall = NoCall
    /\ nCalls = 0
    /\ firstAt = -1
    /\ resetAt = -1
    /\ sinceReset = 0
    /\ pc = [p \in Procs |-> "idle"]
    /\ pnow = [p \in Procs |-> 0]
    /\ pread = [p \in Procs |-> {}]
    /\ pres = [p \in Procs |-> [allowed |-> FALSE, err |-> FALSE]]
    /\ InitCanvasIdle
    /\ InitQuotaIdle

NextCanvasSeq ==
    \/ EditPixelRequest
    \/ GetCanvasImageRequest
    \/ CallCanUserEditNow
    \/ CallCanUserEdit
    \/ CanvasTick

SpecCanvasSeq == InitCanvasSeq /\ [][NextCanvasSeq]_vars


----------------------------------------------------------------------------
(* Claims about the edit cooldown and the image cache, requests one after another *)

C7_InvalidationStrict ==
    /\ lastCacheOp.op = "invalidate" =>
           \A t \in CanvasInstants : ~CacheValid(imageCache, imageCacheTime, t)
    /\ lastGet.pre.op = "invalidate" => ~lastGet.hit

\* a GetCanvasImage right after the invalidation of an entry younger than the
\* TTL: served a fresh rendering, not the cache
C7_Witness ==
    /\ lastGet.pre.op = "invalidate"
    /\ lastGet.pre.had
    /\ lastGet.age >= 0
    /\ lastGet.age < Secs(imageCacheTTL)
    /\ lastGet.status = 200
    /\ ~lastGet.hit

\* the rows of table edits written for user u, oldest first
EditsOf(u) == SelectSeq(edits, LAMBDA row : row.user_id = u)

----------------------------------------------------------------------------
(* Canvas requests in flight together: one step per statement that other
   requests can observe *)

\* sync.RWMutex.  A Lock that has to wait holds back the RLocks that come after.
CanRLock(mu) == mu.writer = <<>> /\ mu.waiting = {}
CanLock(mu) == mu.writer = <<>> /\ mu.readers = {}
RLock(mu, r) == [mu EXCEPT !.readers = @ \cup {r}]
\* a path that returns without RUnlock
RUnlockForgotten(mu, r) == mu
RUnlock(mu, r) == [mu EXCEPT !.readers = @ \ {r}]
Lock(mu, who) ==
    IF CanLock(mu) THEN [mu EXCEPT !.writer = who, !.waiting = @ \ {who}]
    ELSE [mu EXCEPT !.waiting = @ \cup {who}]
Unlock(mu) == [mu EXCEPT !.writer = <<>>]

Max(a, b) == IF a >= b THEN a ELSE b

\* one well-formed edit and one malformed one
ConcBodies ==
    {b \in GoodBodies : b.y = 0 /\ b.color = Red} \cup {[json |-> TRUE, x |-> 0, y |-> 0, color |-> NotHex]}

ConcCanvasInstants == {0, Secs(imageCacheTTL)}

\* the request arrives, authenticated
EStart(e) ==
    /\ epc[e] = "idle"
    /\ \E u \in EditingUsers, body \in ConcBodies :
        ereq' = [ereq EXCEPT ![e] = [user |-> u, body |-> body]]
    /\ epc' = [epc EXCEPT ![e] = "check"]
    /\ UNCHANGED <<now, cfg, ledgerVars, obsVars, procVars, storeVars, cacheVars, canvasObs>>
    /\ UNCHANGED <<eloc, rpc, rloc>>
    /\ UNCHANGED restVars

\* canvas_handlers.go:188-197  h.db.CanUserEditNow(user.ID)
ECheck(e) ==
    /\ epc[e] = "check"
    /\ LET chk == CanUserEditNow(users, ereq[e].user, now)
           refused == chk.err \/ ~chk.canEdit
       IN
       /\ eloc' = [eloc EXCEPT ![e] =
                      [@ EXCEPT !.checkedAt = now,
                                !.afterCommit = \E o \in Editors :
                                    eloc[o].committed /\ ereq[o].user = ereq[e].user,
                                !.canEdit = chk.canEdit,
                                !.status = IF chk.err THEN 500 ELSE IF refused THEN 429 ELSE 0,
                                !.code = IF chk.err THEN "DB_ERROR"
                                         ELSE IF refused THEN "RATE_LIMITED" ELSE "none"]]
       /\ epc' = [epc EXCEPT ![e] = IF refused THEN "done" ELSE "set"]
    /\ UNCHANGED <<now, cfg, ledgerVars, obsVars, procVars, storeVars, cacheVars, canvasObs>>
    /\ UNCHANGED <<ereq, rpc, rloc>>
    /\ UNCHANGED restVars

\* canvas_handlers.go:199-226  decode, validate, h.db.SetPixel
ESet(e) ==
    /\ epc[e] = "set"
    /\ \E dbOK \in BOOLEAN :
        LET body == ereq[e].body
            set == SetPixel(canvas, edits, users, body.x, body.y, body.color,
                            ereq[e].user, now, dbOK)
        IN
        IF ValidateEdit(body) # "ok"
        THEN /\ eloc' = [eloc EXCEPT ![e].status = 400, ![e].code = ValidateEdit(body)]
             /\ epc' = [epc EXCEPT ![e] = "done"]
             /\ UNCHANGED <<users, storeVars, canvasGen>>
        ELSE IF set.err
        THEN /\ eloc' = [eloc EXCEPT ![e].status = 500, ![e].code = "DB_ERROR"]
             /\ epc' = [epc EXCEPT ![e] = "done"]
             /\ UNCHANGED <<users, storeVars, canvasGen>>
        ELSE /\ canvas' = set.canvas
             /\ edits' = set.edits
             /\ users' = set.users
             /\ canvasGen' = canvasGen + 1
             /\ eloc' = [eloc EXCEPT ![e].committed = TRUE, ![e].gen = canvasGen + 1]
             /\ epc' = [epc EXCEPT ![e] = "lock"]
    /\ UNCHANGED <<now, cfg, ipLimits, userLimits, obsVars, procVars, cacheVars>>
    /\ UNCHANGED <<cacheGen, invalidatedGen, lastCacheOp, lastEdit, lastGet, ereq, rpc, rloc>>
    /\ UNCHANGED restVars

\* a handler that answers as soon as SetPixel returned, before it turns to
\* the cache
ELockAfterResponse(e) ==
    /\ epc[e] = "lock"
    /\ eloc' = [eloc EXCEPT ![e].status = 200, ![e].code = "ok"]
    /\ imageCacheMu' = Lock(imageCacheMu, <<"EditPixel", e>>)
    /\ epc' = [epc EXCEPT ![e] = IF CanLock(imageCacheMu) THEN "invalidate" ELSE "locking"]
    /\ UNCHANGED <<now, cfg, ledgerVars, obsVars, procVars, storeVars, canvasObs>>
    /\ UNCHANGED <<imageCache, imageCacheTime, ereq, rpc, rloc>>
    /\ UNCHANGED restVars

\* canvas_handlers.go:229  imageCacheMu.Lock(), called
ELock(e) ==
    /\ epc[e] = "lock"
    /\ imageCacheMu' = Lock(imageCacheMu, <<"EditPixel", e>>)
    /\ epc' = [epc EXCEPT ![e] = IF CanLock(imageCacheMu) THEN "invalidate" ELSE "locking"]
    /\ UNCHANGED <<now, cfg, ledgerVars, obsVars, procVars, storeVars, canvasObs>>
    /\ UNCHANGED <<imageCache, imageCacheTime, ereq, eloc, rpc, rloc>>
    /\ UNCHANGED restVars

\* canvas_handlers.go:229  imageCacheMu.Lock(), granted after a wait
ELockGranted(e) ==
    /\ epc[e] = "locking"
    /\ CanLock(imageCacheMu)
    /\ imageCacheMu' = Lock(imageCacheMu, <<"EditPixel", e>>)
    /\ epc' = [epc EXCEPT ![e] = "invalidate"]
    /\ UNCHANGED <<now, cfg, ledgerVars, obsVars, procVars, storeVars, canvasObs>>
    /\ UNCHANGED <<imageCache, imageCacheTime, ereq, eloc, rpc, rloc>>
    /\ UNCHANGED restVars

\* canvas_handlers.go:230-231  imageCache = nil, Unlock
EInvalidate(e) ==
    /\ epc[e] = "invalidate"
    /\ imageCache' = Invalidate(imageCache)
    /\ imageCacheMu' = Unlock(imageCacheMu)
    /\ invalidatedGen' = Max(invalidatedGen, eloc[e].gen)
    /\ lastCacheOp' = [op |-> "invalidate", had |-> imageCache # <<>>]
    /\ eloc' = [eloc EXCEPT ![e].invalidated = TRUE]
    /\ epc' = [epc EXCEPT ![e] = "respond"]
    /\ UNCHANGED <<now, cfg, ledgerVars, obsVars, procVars, storeVars>>
    /\ UNCHANGED <<imageCacheTime, canvasGen, cacheGen, lastEdit, lastGet, ereq, rpc, rloc>>
    /\ UNCHANGED restVars

\* canvas_handlers.go:233-239  WriteJSON(w, http.StatusOK, ...)
ERespond(e) ==
    /\ epc[e] = "respond"
    /\ eloc' = [eloc EXCEPT ![e].status = 200, ![e].code = "ok"]
    /\ epc' = [epc EXCEPT ![e] = "done"]
    /\ UNCHANGED <<now, cfg, ledgerVars, obsVars, procVars, storeVars, cacheVars, canvasObs>>
    /\ UNCHANGED <<ereq, rpc, rloc>>
    /\ UNCHANGED restVars


\* the request arrives; mustSee: the edits that had finished invalidating by then
RStart(r) ==
    /\ rpc[r] = "idle"
    /\ rloc' = [rloc EXCEPT ![r].mustSee = invalidatedGen]
    /\ rpc' = [rpc EXCEPT ![r] = "rlock"]
    /\ UNCHANGED <<now, cfg, ledgerVars, obsVars, procVars, storeVars, cacheVars, canvasObs>>
    /\ UNCHANGED <<epc, ereq, eloc>>
    /\ UNCHANGED restVars

\* canvas_handlers.go:31  imageCacheMu.RLock()
RRLock(r) ==
    /\ rpc[r] = "rlock"
    /\ CanRLock(imageCacheMu)
    /\ imageCacheMu' = RLock(imageCacheMu, r)
    /\ rpc' = [rpc EXCEPT ![r] = "lookup"]
    /\ UNCHANGED <<now, cfg, ledgerVars, obsVars, procVars, storeVars, canvasObs>>
    /\ UNCHANGED <<imageCache, imageCacheTime, epc, ereq, eloc, rloc>>
    /\ UNCHANGED restVars

\* canvas_handlers.go:32, 38  the lookup; on a miss RUnlock, on a hit the
\* shared lock is kept
RLookup(r) ==
    /\ rpc[r] = "lookup"
    /\ IF CacheValid(imageCache, imageCacheTime, now)
       THEN /\ rloc' = [rloc EXCEPT ![r].hit = TRUE]
            /\ rpc' = [rpc EXCEPT ![r] = "hitwrite"]
            /\ UNCHANGED imageCacheMu
       ELSE /\ rpc' = [rpc EXCEPT ![r] = "query"]
            /\ imageCacheMu' = RUnlock(imageCacheMu, r)
            /\ UNCHANGED rloc
    /\ UNCHANGED <<now, cfg, ledgerVars, obsVars, procVars, storeVars, canvasObs>>
    /\ UNCHANGED <<imageCache, imageCacheTime, epc, ereq, eloc>>
    /\ UNCHANGED restVars

\* canvas_handlers.go:33-37  w.Write(imageCache) to the client, then RUnlock
RHitWrite(r) ==
    /\ rpc[r] = "hitwrite"
    /\ rloc' = [rloc EXCEPT ![r].body = imageCache, ![r].bodyGen = cacheGen,
                            ![r].status = 200]
    /\ imageCacheMu' = RUnlock(imageCacheMu, r)
    /\ rpc' = [rpc EXCEPT ![r] = "done"]
    /\ UNCHANGED <<now, cfg, ledgerVars, obsVars, procVars, storeVars, canvasObs>>
    /\ UNCHANGED <<imageCache, imageCacheTime, epc, ereq, eloc>>
    /\ UNCHANGED restVars

\* canvas_handlers.go:41-46  h.db.GetAllPixels()
RQuery(r) ==
    /\ rpc[r] = "query"
    /\ \E dbOK \in BOOLEAN :
        IF dbOK
        THEN /\ rloc' = [rloc EXCEPT ![r].pixels = GetAllPixels(canvas), ![r].gen = canvasGen]
             /\ rpc' = [rpc EXCEPT ![r] = "wlock"]
        ELSE /\ rloc' = [rloc EXCEPT ![r].status = 500]
             /\ rpc' = [rpc EXCEPT ![r] = "done"]
    /\ UNCHANGED <<now, cfg, ledgerVars, obsVars, procVars, storeVars, cacheVars, canvasObs>>
    /\ UNCHANGED <<epc, ereq, eloc>>
    /\ UNCHANGED restVars

\* canvas_handlers.go:48-55  canvas.Render, then imageCacheMu.Lock(), called
RLock2(r) ==
    /\ rpc[r] = "wlock"
    /\ \E renderOK \in BOOLEAN :
        IF renderOK
        THEN /\ imageCacheMu' = Lock(imageCacheMu, <<"GetCanvasImage", r>>)
             /\ rpc' = [rpc EXCEPT ![r] = IF CanLock(imageCacheMu) THEN "store"
                                          ELSE "locking"]
             /\ UNCHANGED rloc
        ELSE /\ rloc' = [rloc EXCEPT ![r].status = 500]
             /\ rpc' = [rpc EXCEPT ![r] = "done"]
             /\ UNCHANGED imageCacheMu
    /\ UNCHANGED <<now, cfg, ledgerVars, obsVars, procVars, storeVars, canvasObs>>
    /\ UNCHANGED <<imageCache, imageCacheTime, epc, ereq, eloc>>
    /\ UNCHANGED restVars

\* canvas_handlers.go:55  imageCacheMu.Lock(), granted after a wait
RLockGranted(r) ==
    /\ rpc[r] = "locking"
    /\ CanLock(imageCacheMu)
    /\ imageCacheMu' = Lock(imageCacheMu, <<"GetCanvasImage", r>>)
    /\ rpc' = [rpc EXCEPT ![r] = "store"]
    /\ UNCHANGED <<now, cfg, ledgerVars, obsVars, procVars, storeVars, canvasObs>>
    /\ UNCHANGED <<imageCache, imageCacheTime, epc, ereq, eloc, rloc>>
    /\ UNCHANGED restVars

\* canvas_handlers.go:56-58  the cache is set, Unlock
RStore(r) ==
    /\ rpc[r] = "store"
    /\ imageCache' = <<Render(rloc[r].pixels)>>
    /\ imageCacheTime' = now
    /\ imageCacheMu' = Unlock(imageCacheMu)
    /\ cacheGen' = rloc[r].gen
    /\ lastCacheOp' = [op |-> "set", had |-> imageCache # <<>>]
    /\ rpc' = [rpc EXCEPT ![r] = "respond"]
    /\ UNCHANGED <<now, cfg, ledgerVars, obsVars, procVars, storeVars>>
    /\ UNCHANGED <<canvasGen, invalidatedGen, lastEdit, lastGet, epc, ereq, eloc, rloc>>
    /\ UNCHANGED restVars

\* canvas_handlers.go:60-62  the bytes are written out; slot: what the cache
\* holds at that moment
RRespond(r) ==
    /\ rpc[r] = "respond"
    /\ rloc' = [rloc EXCEPT ![r].body = ResponseBody(Render(rloc[r].pixels), imageCache),
                            ![r].bodyGen = rloc[r].gen, ![r].status = 200,
                            ![r].slot = imageCache]
    /\ rpc' = [rpc EXCEPT ![r] = "done"]
    /\ UNCHANGED <<now, cfg, ledgerVars, obsVars, procVars, storeVars, cacheVars, canvasObs>>
    /\ UNCHANGED <<epc, ereq, eloc>>
    /\ UNCHANGED restVars

CanvasConcTick ==
    /\ \E t \in ConcCanvasInstants : t > now /\ now' = t
    /\ UNCHANGED <<cfg, ledgerVars, obsVars, procVars, canvasVars>>
    /\ UNCHANGED restVars

InitCanvas == InitCanvasSeq

NextCanvas ==
    \/ \E e \in Editors :
        \/ EStart(e) \/ ECheck(e) \/ ESet(e) \/ ELock(e) \/ ELockGranted(e)
        \/ EInvalidate(e) \/ ERespond(e)
    \/ \E r \in Readers :
        \/ RStart(r) \/ RRLock(r) \/ RLookup(r) \/ RHitWrite(r) \/ RQuery(r)
        \/ RLock2(r) \/ RLockGranted(r) \/ RStore(r) \/ RRespond(r)
    \/ CanvasConcTick

SpecCanvas == InitCanvas /\ [][NextCanvas]_vars

\* the steps of a request once it has arrived
EditorRun(e) ==
    \/ ECheck(e) \/ ESet(e) \/ ELock(e) \/ ELockGranted(e) \/ EInvalidate(e) \/ ERespond(e)

ReaderRun(r) ==
    \/ RRLock(r) \/ RLookup(r) \/ RHitWrite(r) \/ RQuery(r)
    \/ RLock2(r) \/ RLockGranted(r) \/ RStore(r) \/ RRespond(r)

\* one EditPixel request among the GetCanvasImage requests
FairEditors == {e \in Editors : e = 1}

\* the requests at one instant: no clock step
NextCanvasFair ==
    \/ \E e \in FairEditors : EStart(e) \/ EditorRun(e)
    \/ \E r \in Readers : RStart(r) \/ ReaderRun(r)

\* net/http runs each request on a goroutine of its own and the Go scheduler
\* keeps running every goroutine that can run; a store call and a write to
\* the client return, with a result or with an error
FairCanvas ==
    /\ \A e \in FairEditors : WF_vars(EditorRun(e))
    /\ \A r \in Readers : WF_vars(ReaderRun(r))

SpecCanvasFair == InitCanvas /\ [][NextCanvasFair]_vars /\ FairCanvas

\* the requests that went through SetPixel
Committed == {e \in Editors : eloc[e].committed}

\* C2: of two concurrent EditPixel requests of a user who never edited, at most
\* one goes through SetPixel (and exactly one does if neither is turned down for
\* another reason), and an eligibility check made after the first one's commit
\* answers not eligible.
C2_EditCooldownAtomicity ==
    /\ \A u \in EditingUsers : Cardinality({e \in Committed : ereq[e].user = u}) <= 1
    /\ \A e \in Editors : eloc[e].checkedAt >= 0 /\ eloc[e].afterCommit => ~eloc[e].canEdit

\* C3: a GetCanvasImage request is served bytes rendered from a canvas that
\* holds every edit that had finished invalidating the cache when the request began.
C3_NoStaleImage ==
    \A r \in Readers :
        rpc[r] = "done" /\ rloc[r].status = 200 => rloc[r].bodyGen >= rloc[r].mustSee


----------------------------------------------------------------------------
(* SetPixel statement by statement: the transaction, its failures, a crash *)

\* what is committed in the database file
DB == [canvas |-> canvas, edits |-> edits, users |-> users]

\* a plausible slip: ON CONFLICT (x, y) DO NOTHING
UpsertCanvasKeepsOld(work, x, y, color, userID, t) ==
    IF \E r \in work.canvas : r.x = x /\ r.y = y THEN work
    ELSE [work EXCEPT !.canvas = @ \cup {[x |-> x, y |-> y, color |-> color,
                                           last_user_id |-> userID,
                                           updated_at |-> CurrentTimestamp(t)]}]

\* canvas.go:54-61  INSERT INTO canvas ... ON CONFLICT (x, y) DO UPDATE, on tx
UpsertCanvas(work, x, y, color, userID, t) ==
    [work EXCEPT !.canvas = {r \in @ : ~(r.x = x /\ r.y = y)}
                     \cup {[x |-> x, y |-> y, color |-> color, last_user_id |-> userID,
                            updated_at |-> CurrentTimestamp(t)]}]

\* canvas.go:67-70  INSERT INTO edits, on tx; created_at DEFAULT CURRENT_TIMESTAMP
InsertEdit(work, x, y, color, userID, t) ==
    [work EXCEPT !.edits = Append(@, [id |-> Len(@) + 1, x |-> x, y |-> y, color |-> color,
                                      user_id |-> userID,
                                      created_at |-> CurrentTimestamp(t)])]

\* a plausible slip: the UPDATE runs on d.conn, outside the transaction
StampUserOutsideTx(db, work, userID, t) ==
    [db |-> [db EXCEPT !.users = Stamped(@, userID, t)],
     work |-> [work EXCEPT !.users = Stamped(@, userID, t)]]

\* canvas.go:76-78  UPDATE users SET last_edit_at = CURRENT_TIMESTAMP, on tx
StampUser(db, work, userID, t) ==
    [db |-> db, work |-> [work EXCEPT !.users = Stamped(@, userID, t)]]

TxClosed == {"idle", "committed", "rolledback", "crashed"}
TxOpen == {"begun", "upserted", "inserted", "stamped"}

TxInstants == {0, 1, Secs(1), Secs(2)}

\* canvas.go:47-51  d.conn.Begin()
TxBegin ==
    /\ tx.pc \in TxClosed
    /\ Len(edits) < MaxEdits
    /\ \E u \in CanvasUserIDs, body \in GoodBodies, ok \in BOOLEAN :
        tx' = IF ok
              THEN [pc |-> "begun", reached |-> "begun", user |-> u, x |-> body.x,
                    y |-> body.y, color |-> body.color, began |-> now, ended |-> now,
                    pre |-> DB, work |-> DB]
              ELSE [NoTx EXCEPT !.pc = "rolledback", !.user = u, !.began = now,
                                !.ended = now, !.pre = DB, !.work = DB]
    /\ UNCHANGED <<now, cfg, ledgerVars, obsVars, procVars, canvasVars>>
    /\ UNCHANGED <<txs, sweepVars, quotaVars>>

TxUpsert ==
    /\ tx.pc = "begun"
    /\ tx' = [tx EXCEPT !.pc = "upserted", !.reached = "upserted", !.ended = now,
                        !.work = UpsertCanvas(@, tx.x, tx.y, tx.color, tx.user, now)]
    /\ UNCHANGED <<now, cfg, ledgerVars, obsVars, procVars, canvasVars>>
    /\ UNCHANGED <<txs, sweepVars, quotaVars>>

TxInsert ==
    /\ tx.pc = "upserted"
    /\ tx' = [tx EXCEPT !.pc = "inserted", !.reached = "inserted", !.ended = now,
                        !.work = InsertEdit(@, tx.x, tx.y, tx.color, tx.user, now)]
    /\ UNCHANGED <<now, cfg, ledgerVars, obsVars, procVars, canvasVars>>
    /\ UNCHANGED <<txs, sweepVars, quotaVars>>

TxStamp ==
    /\ tx.pc = "inserted"
    /\ LET r == StampUser(DB, tx.work, tx.user, now) IN
       /\ tx' = [tx EXCEPT !.pc = "stamped", !.reached = "stamped", !.ended = now,
                           !.work = r.work]
       /\ canvas' = r.db.canvas
       /\ edits' = r.db.edits
       /\ users' = r.db.users
    /\ UNCHANGED <<now, cfg, ipLimits, userLimits, obsVars, procVars>>
    /\ UNCHANGED <<cacheVars, canvasObs, reqVars>>
    /\ UNCHANGED <<txs, sweepVars, quotaVars>>

\* canvas.go:83  tx.Commit()
TxCommit ==
    /\ tx.pc = "stamped"
    /\ canvas' = tx.work.canvas
    /\ edits' = tx.work.edits
    /\ users' = tx.work.users
    /\ tx' = [tx EXCEPT !.pc = "committed", !.reached = "committed"]
    /\ UNCHANGED <<now, cfg, ipLimits, userLimits, obsVars, procVars>>
    /\ UNCHANGED <<cacheVars, canvasObs, reqVars>>
    /\ UNCHANGED <<txs, sweepVars, quotaVars>>

\* the next statement, or the commit, fails: return err, the deferred Rollback
TxRollback ==
    /\ tx.pc \in TxOpen
    /\ tx' = [tx EXCEPT !.pc = "rolledback", !.work = DB]
    /\ UNCHANGED <<now, cfg, ledgerVars, obsVars, procVars, canvasVars>>
    /\ UNCHANGED <<txs, sweepVars, quotaVars>>

\* the process dies with the transaction open: SQLite discards it
TxCrash ==
    /\ tx.pc \in TxOpen
    /\ tx' = [tx EXCEPT !.pc = "crashed", !.work = DB]
    /\ UNCHANGED <<now, cfg, ledgerVars, obsVars, procVars, canvasVars>>
    /\ UNCHANGED <<txs, sweepVars, quotaVars>>

TxTick ==
    /\ \E t \in TxInstants : t > now /\ now' = t
    /\ UNCHANGED <<cfg, ledgerVars, obsVars, procVars, canvasVars, restVars>>

InitTx == InitCanvasSeq

NextTx ==
    \/ TxBegin
    \/ TxUpsert
    \/ TxInsert
    \/ TxStamp
    \/ TxCommit
    \/ TxRollback
    \/ TxCrash
    \/ TxTick

SpecTx == InitTx /\ [][NextTx]_vars

----------------------------------------------------------------------------
(* SetPixel calls in flight together, each on a connection of its own.  SQLite
   lets one transaction write at a time: a transaction becomes the writer at
   its first write statement and stays it until it commits or rolls back *)

\* another call's transaction is the writer
WriteLocked(c) == \E o \in TxCalls \ {c} : txs[o].pc \in {"upserted", "inserted", "stamped"}

\* canvas.go:47-51  d.conn.Begin(); pre: what was committed at that moment
CBegin(c) ==
    /\ txs[c].pc \in TxClosed
    /\ Len(edits) < MaxEdits
    /\ \E u \in CanvasUserIDs, body \in GoodBodies :
        txs' = [txs EXCEPT ![c] =
                   [pc |-> "begun", reached |-> "begun", user |-> u, x |-> body.x,
                    y |-> body.y, color |-> body.color, began |-> 0, ended |-> 0,
                    pre |-> DB, work |-> DB]]
    /\ UNCHANGED <<now, cfg, ledgerVars, obsVars, procVars, canvasVars>>
    /\ UNCHANGED <<tx, sweepVars, quotaVars>>

\* canvas.go:54-61  the upsert, the transaction's first statement: it waits
\* while another transaction is the writer, then works on what is committed
CUpsert(c) ==
    /\ txs[c].pc = "begun"
    /\ ~WriteLocked(c)
    /\ txs' = [txs EXCEPT ![c] =
                  [@ EXCEPT !.pc = "upserted", !.reached = "upserted",
                            !.work = UpsertCanvas(DB, txs[c].x, txs[c].y, txs[c].color,
                                                  txs[c].user, now)]]
    /\ UNCHANGED <<now, cfg, ledgerVars, obsVars, procVars, canvasVars>>
    /\ UNCHANGED <<tx, sweepVars, quotaVars>>

\* canvas.go:67-70  INSERT INTO edits
CInsert(c) ==
    /\ txs[c].pc = "upserted"
    /\ txs' = [txs EXCEPT ![c] =
                  [@ EXCEPT !.pc = "inserted", !.reached = "inserted",
                            !.work = InsertEdit(@, txs[c].x, txs[c].y, txs[c].color,
                                                txs[c].user, now)]]
    /\ UNCHANGED <<now, cfg, ledgerVars, obsVars, procVars, canvasVars>>
    /\ UNCHANGED <<tx, sweepVars, quotaVars>>

\* canvas.go:76-78  UPDATE users SET last_edit_at
CStamp(c) ==
    /\ txs[c].pc = "inserted"
    /\ LET r == StampUser(DB, txs[c].work, txs[c].user, now) IN
       /\ txs' = [txs EXCEPT ![c] =
                     [@ EXCEPT !.pc = "stamped", !.reached = "stamped",
                               !.work = r.work]]
       /\ canvas' = r.db.canvas
       /\ edits' = r.db.edits
       /\ users' = r.db.users
    /\ UNCHANGED <<now, cfg, ipLimits, userLimits, obsVars, procVars>>
    /\ UNCHANGED <<cacheVars, canvasObs, reqVars>>
    /\ UNCHANGED <<tx, sweepVars, quotaVars>>

\* canvas.go:83  tx.Commit()
CCommit(c) ==
    /\ txs[c].pc = "stamped"
    /\ canvas' = txs[c].work.canvas
    /\ edits' = txs[c].work.edits
    /\ users' = txs[c].work.users
    /\ txs' = [txs EXCEPT ![c] = [@ EXCEPT !.pc = "committed", !.reached = "committed"]]
    /\ UNCHANGED <<now, cfg, ipLimits, userLimits, obsVars, procVars>>
    /\ UNCHANGED <<cacheVars, canvasObs, reqVars>>
    /\ UNCHANGED <<tx, sweepVars, quotaVars>>

\* a statement or the commit returns an error (the database is busy, or any
\* other failure): return err, the deferred Rollback
CRollback(c) ==
    /\ txs[c].pc \in TxOpen
    /\ txs' = [txs EXCEPT ![c] = [@ EXCEPT !.pc = "rolledback", !.work = DB]]
    /\ UNCHANGED <<now, cfg, ledgerVars, obsVars, procVars, canvasVars>>
    /\ UNCHANGED <<tx, sweepVars, quotaVars>>

\* time passes between the statements
CTick ==
    /\ now = 0
    /\ now' = Secs(1)
    /\ UNCHANGED <<cfg, ledgerVars, obsVars, procVars, canvasVars, restVars>>

NextTxConc ==
    \/ \E c \in TxCalls :
        CBegin(c) \/ CUpsert(c) \/ CInsert(c) \/ CStamp(c) \/ CCommit(c) \/ CRollback(c)
    \/ CTick

SpecTxConc == InitTx /\ [][NextTxConc]_vars



LastEditAt(usr, u) == (CHOOSE r \in UserRows(usr, u) : TRUE).last_edit_at

\* the latest history row written at pixel (x, y)
LastEditOfPixel(hist, x, y) ==
    LET at == {i \in 1..Len(hist) : hist[i].x = x /\ hist[i].y = y} IN
    hist[CHOOSE i \in at : \A j \in at : j <= i]

\* what is committed: a user is stamped iff a history row of theirs exists, the
\* stamp is not older than that row, and every history row has its pixel
C11_Paired ==
    /\ \A u \in CanvasUserIDs :
        /\ LastEditAt(users, u).valid <=> Len(EditsOf(u)) > 0
        /\ Len(EditsOf(u)) > 0 =>
               LastEditAt(users, u).time >= EditsOf(u)[Len(EditsOf(u))].created_at
    /\ \A i \in 1..Len(edits) :
        \E c \in canvas :
            /\ c.x = edits[i].x /\ c.y = edits[i].y
            /\ c.color = LastEditOfPixel(edits, c.x, c.y).color
            /\ c.last_user_id = LastEditOfPixel(edits, c.x, c.y).user_id
    /\ \A c \in canvas : \E i \in 1..Len(edits) : c.x = edits[i].x /\ c.y = edits[i].y
    /\ (tx.pc = "committed" /\ CurrentTimestamp(tx.began) = CurrentTimestamp(tx.ended)) =>
           LET set == SetPixel(tx.pre.canvas, tx.pre.edits, tx.pre.users, tx.x, tx.y,
                               tx.color, tx.user, tx.began, TRUE)
           IN DB = [canvas |-> set.canvas, edits |-> set.edits, users |-> set.users]

\* one step: the committed stamp changes only together with a new history
\* row, and pixel or history change only together with the stamp of that edit
C11_Together ==
    /\ users' # users => Len(edits') = Len(edits) + 1
    /\ (edits' # edits \/ canvas' # canvas) =>
           /\ Len(edits') = Len(edits) + 1
           /\ LET row == edits'[Len(edits')] IN
              /\ LastEditAt(users', row.user_id).valid
              /\ LastEditAt(users', row.user_id).time >= row.created_at
              /\ \E c \in canvas' : /\ c.x = row.x /\ c.y = row.y
                                    /\ c.color = row.color /\ c.last_user_id = row.user_id
    /\ tx'.pc \in {"rolledback", "crashed"} => DB' = DB

\* C11: in every reachable state, also after a failure or a crash at any
\* statement of SetPixel, the canvas upsert and the history row of an edit are
\* committed if and only if its last_edit_at stamp is; no step commits one
\* without the other.
C11_WriteAndStampAtomic == []C11_Paired /\ [][C11_Together]_vars

\* an edit is committed, and a later SetPixel of the other user failed or
\* crashed after its stamp statement had run: that user is not stamped
C11_Witness ==
    /\ tx.pc \in {"rolledback", "crashed"}
    /\ tx.reached = "stamped"
    /\ Len(edits) = 1
    /\ edits[1].user_id # tx.user
    /\ ~LastEditAt(users, tx.user).valid

\* the history rows of pixel (x, y)
HistoryAt(x, y) == {i \in 1..Len(edits) : edits[i].x = x /\ edits[i].y = y}

\* every canvas row is the latest history row of its pixel, one row a pixel,
\* and every pixel with history has its row
C29_Consistent ==
    /\ \A c \in canvas :
        /\ HistoryAt(c.x, c.y) # {}
        /\ c.color = LastEditOfPixel(edits, c.x, c.y).color
        /\ c.last_user_id = LastEditOfPixel(edits, c.x, c.y).user_id
        /\ \A d \in canvas : (d.x = c.x /\ d.y = c.y) => d = c
    /\ \A i \in 1..Len(edits) : \E c \in canvas : c.x = edits[i].x /\ c.y = edits[i].y

\* one step: a SetPixel that commits adds one history row, its own, and
\* nothing else changes the two tables
C29_Step ==
    /\ \A c \in TxCalls :
        (txs[c].pc # "committed" /\ txs'[c].pc = "committed") =>
            /\ Len(edits') = Len(edits) + 1
            /\ SubSeq(edits', 1, Len(edits)) = edits
            /\ LET row == edits'[Len(edits')] IN
               /\ row.x = txs[c].x /\ row.y = txs[c].y
               /\ row.color = txs[c].color /\ row.user_id = txs[c].user
    /\ (edits' # edits \/ canvas' # canvas) =>
           \E c \in TxCalls : txs[c].pc # "committed" /\ txs'[c].pc = "committed"

\* C29: under any interleaving of SetPixel calls by any users each canvas row
\* (x, y) carries the colour and user of the most recently committed history
\* row for (x, y), every coordinate that has a history row has a canvas row,
\* and each successful edit adds exactly one history row.
C29_CanvasMatchesHistory == []C29_Consistent /\ [][C29_Step]_vars

\* two calls by different users, different colours for one pixel: the second
\* to commit had begun before the first committed
C29_Witness ==
    /\ Len(edits) = 2
    /\ edits[1].x = edits[2].x /\ edits[1].y = edits[2].y
    /\ edits[1].color # edits[2].color
    /\ edits[1].user_id # edits[2].user_id
    /\ \E c \in TxCalls :
        /\ txs[c].pc = "committed"
        /\ txs[c].pre.edits = <<>>
        /\ txs[c].user = edits[2].user_id


----------------------------------------------------------------------------
(* The sweep among rate-limit checks issued one after another *)

\* start: the counter of the other table, begun at time 0 by an earlier request
SweepConfigs ==
    {[fn |-> f, limit |-> l, window |-> w, start |-> c] :
        f \in {"ip", "user"}, l \in 1..MaxLimit, w \in Windows, c \in 0..1}

\* around the window of a counter begun at 0 and around its retention
SweepInstants(w) ==
    {0, 1, Secs(w) + 1, RetentionTicks, RetentionTicks + 1,
     RetentionTicks + Secs(w) + 2, 2 * RetentionTicks + 2}

CallCleanupOldRateLimits ==
    /\ \E failAt \in {"none", "ip", "user"} :
        LET r == CleanupOldRateLimits(ipLimits, userLimits, now, failAt) IN
        /\ ipLimits' = r.ipLimits
        /\ userLimits' = r.userLimits
        /\ lastSweep' = [seen |-> TRUE, at |-> now, err |-> r.err, calls |-> nCalls,
                         preIP |-> ipLimits, preUser |-> userLimits,
                         postIP |-> r.ipLimits, postUser |-> r.userLimits]
    /\ UNCHANGED <<now, cfg, users, obsVars, procVars, canvasVars, txVars, quotaVars, sweep>>

SweepTick ==
    /\ \E t \in SweepInstants(cfg.window) : t > now /\ now' = t
    /\ UNCHANGED <<cfg, ledgerVars, obsVars, procVars, canvasVars, restVars>>

InitSweep ==
    /\ cfg \in SweepConfigs
    /\ now = 0
    /\ ipLimits = IF cfg.fn = "user" THEN StartRows(ConcIP, ConcIPAction, cfg.start) ELSE {}
    /\ userLimits = IF cfg.fn = "ip" THEN StartRows(ConcUser, ConcUserAction, cfg.start)
                    ELSE {}
    /\ users = {SystemUser}
    /\ lastCall = NoCall
    /\ nCalls = 0
    /\ firstAt = -1
    /\ resetAt = -1
    /\ sinceReset = 0
    /\ pc = [p \in Procs |-> "idle"]
    /\ pnow = [p \in Procs |-> 0]
    /\ pread = [p \in Procs |-> {}]
    /\ pres = [p \in Procs |-> [allowed |-> FALSE, err |-> FALSE]]
    /\ InitCanvasIdle
    /\ InitQuotaIdle

NextSweep ==
    \/ CallCheckIPRateLimit
    \/ CallCheckUserRateLimit
    \/ CallCleanupOldRateLimits
    \/ SweepTick

SpecSweep == InitSweep /\ [][NextSweep]_vars

\* more than 24 h lie between the counter's window_start and time t
OlderThanRetention(r, t) == t - r.window_start > RetentionTicks

\* a check of the behaviour's caller at time t on the given tables: what it
\* answers and the counter it leaves
CheckOn(ipTbl, userTbl, l, w, t) ==
    IF cfg.fn = "ip"
    THEN LET r == CheckIPRateLimit(ipTbl, SelectRow(ipTbl, ConcIP, ConcIPAction), ConcIP,
                                   ConcIPAction, l, w, t, "none")
         IN [allowed |-> r.allowed, err |-> r.err,
             row |-> SelectRow(r.tbl, ConcIP, ConcIPAction)]
    ELSE LET r == CheckUserRateLimit(userTbl, SelectRow(userTbl, ConcUser, ConcUserAction),
                                     ConcUser, ConcUserAction, l, w, t, "none")
         IN [allowed |-> r.allowed, err |-> r.err,
             row |-> SelectRow(r.tbl, ConcUser, ConcUserAction)]

\* C13: CleanupOldRateLimits removes only counters whose window_start is more
\* than 24 h old and changes no other; when it returns without error it has
\* removed every such counter of both tables; and for every window of at most
\* 24 h a check that follows the sweep answers the same and leaves the same
\* counter as it would on the tables before the sweep.
C13_SweepRemovesOnlyOld ==
    lastSweep.seen =>
        /\ lastSweep.postIP \subseteq lastSweep.preIP
        /\ lastSweep.postUser \subseteq lastSweep.preUser
        /\ \A r \in lastSweep.preIP \ lastSweep.postIP : OlderThanRetention(r, lastSweep.at)
        /\ \A r \in lastSweep.preUser \ lastSweep.postUser :
               OlderThanRetention(r, lastSweep.at)
        /\ ~lastSweep.err =>
               /\ \A r \in lastSweep.postIP : ~OlderThanRetention(r, lastSweep.at)
               /\ \A r \in lastSweep.postUser : ~OlderThanRetention(r, lastSweep.at)
        /\ \A t \in SweepInstants(cfg.window), l \in 1..MaxLimit, w \in Windows :
               t >= lastSweep.at =>
                   CheckOn(lastSweep.postIP, lastSweep.postUser, l, w, t)
                     = CheckOn(lastSweep.preIP, lastSweep.preUser, l, w, t)
        /\ (nCalls = lastSweep.calls + 1 /\ lastCall.checked) =>
               LET was == CheckOn(lastSweep.preIP, lastSweep.preUser, cfg.limit,
                                  cfg.window, lastCall.t)
               IN /\ lastCall.allowed = was.allowed
                  /\ lastCall.err = was.err
                  /\ lastCall.post = was.row

\* a sweep removed the old counters of both tables, the caller's among them;
\* the check after it found no counter and started one
C13_Witness ==
    /\ lastSweep.seen
    /\ ~lastSweep.err
    /\ lastSweep.preIP # {} /\ lastSweep.postIP = {}
    /\ lastSweep.preUser # {} /\ lastSweep.postUser = {}
    /\ nCalls = lastSweep.calls + 1
    /\ lastCall.checked
    /\ lastCall.pre = {}
    /\ lastCall.allowed
    /\ \E r \in lastCall.post : r.count = 1 /\ r.window_start = lastCall.t


----------------------------------------------------------------------------
(* The sweep among rate-limit checks in flight: one step per SQL statement *)

\* the two checks in flight with the sweep
SweepProcs == {1, 2}

SweepConcInstants(w) == {0, 1, Secs(w) + 1, RetentionTicks + 1}

\* ratelimit.go:106  cutoff := time.Now().Add(-24 * time.Hour)
SweepStart ==
    /\ sweep.pc = "idle"
    /\ sweep' = [pc |-> "ip", cutoff |-> now - RetentionTicks, err |-> FALSE]
    /\ UNCHANGED <<now, cfg, ledgerVars, obsVars, procVars, canvasVars, txVars, quotaVars, lastSweep>>

\* ratelimit.go:108-111  DELETE FROM ip_rate_limits
SweepIP ==
    /\ sweep.pc = "ip"
    /\ \E ok \in BOOLEAN :
        IF ok
        THEN /\ ipLimits' = DeleteOlder(ipLimits, sweep.cutoff)
             /\ sweep' = [sweep EXCEPT !.pc = "user"]
        ELSE /\ sweep' = [sweep EXCEPT !.pc = "done", !.err = TRUE]
             /\ UNCHANGED ipLimits
    /\ UNCHANGED <<now, cfg, userLimits, users, obsVars, procVars, canvasVars, txVars, quotaVars>>
    /\ UNCHANGED lastSweep

\* ratelimit.go:113-114  DELETE FROM user_rate_limits
SweepUser ==
    /\ sweep.pc = "user"
    /\ \E ok \in BOOLEAN :
        IF ok
        THEN /\ userLimits' = DeleteOlder(userLimits, sweep.cutoff)
             /\ sweep' = [sweep EXCEPT !.pc = "done"]
        ELSE /\ sweep' = [sweep EXCEPT !.pc = "done", !.err = TRUE]
             /\ UNCHANGED userLimits
    /\ UNCHANGED <<now, cfg, ipLimits, users, obsVars, procVars, canvasVars, txVars, quotaVars>>
    /\ UNCHANGED lastSweep

SweepConcTick ==
    /\ \E t \in SweepConcInstants(cfg.window) : t > now /\ now' = t
    /\ UNCHANGED <<cfg, ledgerVars, obsVars, procVars, canvasVars, restVars>>

InitSweepConc == InitConc

NextSweepConc ==
    \/ \E p \in SweepProcs : StartCheck(p)
    \/ \E p \in SweepProcs : SelectStep(p)
    \/ \E p \in SweepProcs : WriteStep(p)
    \/ SweepStart
    \/ SweepIP
    \/ SweepUser
    \/ SweepConcTick

SpecSweepConc == InitSweepConc /\ [][NextSweepConc]_vars

\* the counter of the behaviour's caller, as a set of rows
CallerRows ==
    IF cfg.fn = "ip" THEN SelectRow(ipLimits, ConcIP, ConcIPAction)
    ELSE SelectRow(userLimits, ConcUser, ConcUserAction)

\* the sweep has run its DELETE on the caller's table
SweptCallerTable ==
    IF cfg.fn = "ip" THEN sweep.pc \in {"user", "done"} /\ ~sweep.err
    ELSE sweep.pc = "done" /\ ~sweep.err

\* C12: a check that returned allowed without error has left a counter; this
\* is stated for the instant the check was made in, where neither the counter
\* it starts nor the counter it increments is old enough for the sweep.  If it
\* is the only check and the sweep removed the counter it had read, the
\* counter afterwards has count 1 and window_start = the check's now.
C12_SweepRaceHarmless ==
    \A p \in SweepProcs :
        (pc[p] = "done" /\ pres[p].allowed /\ ~pres[p].err /\ pnow[p] = now) =>
            /\ CallerRows # {}
            /\ ((\A q \in SweepProcs \ {p} : pc[q] = "idle")
                /\ SweptCallerTable
                /\ \E r \in pread[p] : r.window_start < sweep.cutoff)
               => \E r \in CallerRows : r.count = 1 /\ r.window_start = pnow[p]

\* C14: each table holds at most one counter per (subject, action).
C14_OneRowPerKey ==
    /\ \A r1, r2 \in ipLimits :
        r1.subject = r2.subject /\ r1.action = r2.action => r1 = r2
    /\ \A r1, r2 \in userLimits :
        r1.subject = r2.subject /\ r1.action = r2.action => r1 = r2

\* two checks at different instants both found no counter and both ran their
\* INSERT: the second one failed on the primary key, one counter exists
C14_Witness ==
    /\ \A p \in SweepProcs : pc[p] = "done" /\ pread[p] = {}
    /\ pnow[1] # pnow[2]
    /\ \E p \in SweepProcs : pres[p].err
    /\ Cardinality(CallerRows) = 1

----------------------------------------------------------------------------
(* Channel, message, page and mail requests issued one after another *)

\* the instants the clock visits: the second after the first rows, and around
\* the moment the rows of second 0 leave the period counted
QuotaInstants(w) == {0, Secs(1), Secs(w) - 1, Secs(w), Secs(w) + Secs(1)}

\* a flow followed from its first row up to a limit of ten visits fewer
QuotaInstantsFew(w) == {0, Secs(1), Secs(w)}

\* start: the rows the flow's user has created in second 0 by earlier requests
QuotaConfigs ==
    {[fn |-> "channel", limit |-> MaxChannelsPerDay, window |-> 24 * 60 * 60, start |-> 0,
      instants |-> QuotaInstants(24 * 60 * 60)],
     [fn |-> "message", limit |-> MaxMessagesPerHour, window |-> 60 * 60, start |-> 0,
      instants |-> QuotaInstantsFew(60 * 60)],
     [fn |-> "message", limit |-> MaxMessagesPerHour, window |-> 60 * 60,
      start |-> MaxMessagesPerHour - 1, instants |-> QuotaInstants(60 * 60)],
     [fn |-> "page", limit |-> DefaultRateLimits.PageUpdatesPerDay,
      window |-> 24 * 60 * 60, start |-> DefaultRateLimits.PageUpdatesPerDay - 1,
      instants |-> QuotaInstants(24 * 60 * 60)],
     [fn |-> "mail", limit |-> DefaultRateLimits.MailSendsPerDay,
      window |-> 24 * 60 * 60, start |-> DefaultRateLimits.MailSendsPerDay - 1,
      instants |-> QuotaInstants(24 * 60 * 60)],
     [fn |-> "register", limit |-> DefaultRateLimits.RegistrationsPerDay,
      window |-> RegisterWindowSeconds, start |-> 0,
      instants |-> QuotaInstants(RegisterWindowSeconds)]}

\* a table kept in id order, as a set of <<id, row>>
Indexed(tbl) == {<<i, tbl[i]>> : i \in DOMAIN tbl}

\* what a quota ledger would answer for this request: CheckUserRateLimit on
\* the counter (user, flow), consulted where the handler consults its count
RefConsult(userID, flow, gated) ==
    IF gated
    THEN CheckUserRateLimit(refLedger, SelectRow(refLedger, userID, flow), userID, flow,
                            cfg.limit, cfg.window, now, "none")
    ELSE [tbl |-> refLedger, allowed |-> FALSE, err |-> FALSE]

\* the requests tried: a good one, and the good one with one thing wrong
ChannelRequests(chs) ==
    LET fresh == [id |-> Cardinality(chs) + 1, upper |-> FALSE, len |-> 5, charset |-> TRUE]
        good == [authed |-> TRUE, json |-> TRUE, name |-> fresh, descLen |-> 256,
                 fail |-> "none"]
    IN {good, [good EXCEPT !.authed = FALSE], [good EXCEPT !.json = FALSE],
        [good EXCEPT !.name.upper = TRUE], [good EXCEPT !.name.len = 2],
        [good EXCEPT !.name.len = 33], [good EXCEPT !.name.charset = FALSE],
        [good EXCEPT !.descLen = 257]}
       \cup {[good EXCEPT !.fail = f] : f \in {"count", "exists", "create"}}
       \cup {[good EXCEPT !.name.id = i, !.name.upper = up] :
                i \in {Cardinality(chs)} \ {0}, up \in BOOLEAN}

MessageRequests(chs) ==
    LET good == [method |-> "POST", authed |-> TRUE, channelName |-> 1, json |-> TRUE,
                 len |-> 1, fail |-> "none"]
    IN {good, [good EXCEPT !.method = "GET"], [good EXCEPT !.authed = FALSE],
        [good EXCEPT !.channelName = 0],
        [good EXCEPT !.channelName = Cardinality(chs) + 1],
        [good EXCEPT !.json = FALSE], [good EXCEPT !.len = 0],
        [good EXCEPT !.len = 1000], [good EXCEPT !.len = 1001]}
       \cup {[good EXCEPT !.fail = f] : f \in {"count", "create"}}

PageRequests ==
    LET good == [authed |-> TRUE, readOK |-> TRUE, len |-> 1, fail |-> "none"]
    IN {good, [good EXCEPT !.authed = FALSE], [good EXCEPT !.readOK = FALSE],
        [good EXCEPT !.len = 0], [good EXCEPT !.len = MaxPageSize],
        [good EXCEPT !.len = MaxPageSize + 1]}
       \cup {[good EXCEPT !.fail = f] : f \in {"count", "create", "record"}}

MailRequests(usr, userID) ==
    LET good == [authed |-> TRUE, json |-> TRUE,
                 to |-> CHOOSE u \in CanvasUserIDs : u # userID, len |-> 1, fail |-> "none"]
    IN {good, [good EXCEPT !.authed = FALSE], [good EXCEPT !.json = FALSE],
        [good EXCEPT !.to = 0], [good EXCEPT !.to = userID],
        [good EXCEPT !.to = NextUserID(usr)],
        [good EXCEPT !.len = 0], [good EXCEPT !.len = MaxMailSize],
        [good EXCEPT !.len = MaxMailSize + 1]}
       \cup {[good EXCEPT !.fail = f] : f \in {"count", "create", "record"}}

CreateChannelRequest ==
    /\ cfg.fn = "channel"
    /\ Cardinality(channels) <= cfg.limit + ExtraCalls
    /\ \E userID \in UserIDs, q \in ChannelRequests(channels) :
         LET r == CreateChannel(channels, q.authed, userID, q, q.fail, now)
             ref == RefConsult(userID, "channel", r.gated)
         IN /\ channels' = r.channels
            /\ refLedger' = ref.tbl
            /\ lastReq' = [flow |-> "channel", user |-> userID, at |-> now,
                           status |-> r.status, gated |-> r.gated, count |-> r.count,
                           created |-> r.created, pre |-> channels,
                           refAllowed |-> ref.allowed]
    /\ UNCHANGED <<now, cfg, ledgerVars, obsVars, procVars, canvasVars, txVars, sweepVars>>
    /\ UNCHANGED <<messages, pages, pageUpdates, mail, mailSends, qreq>>

PostMessageRequest ==
    /\ cfg.fn = "message"
    /\ Len(messages) < Max(cfg.start + ExtraCalls, cfg.limit + 1)
    /\ \E userID \in UserIDs, q \in MessageRequests(channels) :
         LET r == PostMessage(channels, messages, users, q.method, q.authed, userID,
                              q.channelName, q, q.fail, now)
             ref == RefConsult(userID, "message", r.gated)
         IN /\ messages' = r.messages
            /\ refLedger' = ref.tbl
            /\ lastReq' = [flow |-> "message", user |-> userID, at |-> now,
                           status |-> r.status, gated |-> r.gated, count |-> r.count,
                           created |-> r.created, pre |-> Indexed(messages),
                           refAllowed |-> ref.allowed]
    /\ UNCHANGED <<now, cfg, ledgerVars, obsVars, procVars, canvasVars, txVars, sweepVars>>
    /\ UNCHANGED <<channels, pages, pageUpdates, mail, mailSends, qreq>>

UpdatePageRequest ==
    /\ cfg.fn = "page"
    /\ Len(pageUpdates) < cfg.start + ExtraCalls
    /\ \E userID \in UserIDs, q \in PageRequests :
         LET r == UpdatePage(pages, pageUpdates, q.authed, userID, q, q.fail, now)
             ref == RefConsult(userID, "page", r.gated)
         IN /\ pages' = r.pages
            /\ pageUpdates' = r.pageUpdates
            /\ refLedger' = ref.tbl
            /\ lastReq' = [flow |-> "page", user |-> userID, at |-> now,
                           status |-> r.status, gated |-> r.gated, count |-> r.count,
                           created |-> r.created, pre |-> Indexed(pageUpdates),
                           refAllowed |-> ref.allowed]
    /\ UNCHANGED <<now, cfg, ledgerVars, obsVars, procVars, canvasVars, txVars, sweepVars>>
    /\ UNCHANGED <<channels, messages, mail, mailSends, qreq>>

SendMailRequest ==
    /\ cfg.fn = "mail"
    /\ Len(mail) < cfg.start + ExtraCalls
    /\ \E userID \in UserIDs :
       \E q \in MailRequests(users, userID) :
         LET r == SendMail(users, mail, mailSends, q.authed, userID, q, q.fail, now)
             ref == RefConsult(userID, "mail", r.gated)
         IN /\ mail' = r.mail
            /\ mailSends' = r.mailSends
            /\ refLedger' = ref.tbl
            /\ lastReq' = [flow |-> "mail", user |-> userID, at |-> now,
                           status |-> r.status, gated |-> r.gated, count |-> r.count,
                           created |-> r.created, pre |-> Indexed(mailSends),
                           refAllowed |-> ref.allowed]
    /\ UNCHANGED <<now, cfg, ledgerVars, obsVars, procVars, canvasVars, txVars, sweepVars>>
    /\ UNCHANGED <<channels, messages, pages, pageUpdates, qreq>>

\* the clock moves on; the observer then describes no request of this instant
QuotaTick ==
    /\ \E t \in cfg.instants : t > now /\ now' = t
    /\ lastReq' = NoReq
    /\ UNCHANGED <<cfg, ledgerVars, obsVars, procVars, canvasVars, txVars, sweepVars>>
    /\ UNCHANGED <<channels, messages, pages, pageUpdates, mail, mailSends, refLedger, qreq>>

\* n rows of the flow's user, created in second 0
StartSends(n) == [i \in 1..n |-> [user_id |-> 2, created_at |-> 0]]

InitQuota ==
    /\ cfg \in QuotaConfigs
    /\ now = 0
    /\ ipLimits = {}
    /\ userLimits = {}
    /\ users = IF cfg.fn = "register" THEN {SystemUser} ELSE CanvasUsers
    /\ lastCall = NoCall
    /\ nCalls = 0
    /\ firstAt = -1
    /\ resetAt = -1
    /\ sinceReset = 0
    /\ pc = [p \in Procs |-> "idle"]
    /\ pnow = [p \in Procs |-> 0]
    /\ pread = [p \in Procs |-> {}]
    /\ pres = [p \in Procs |-> [allowed |-> FALSE, err |-> FALSE]]
    /\ InitCanvasIdle
    \* the channel the messages go to was created by the other user
    /\ channels = IF cfg.fn \in {"channel", "message"}
                  THEN {[name |-> 1, created_by |-> 3, created_at |-> 0]} ELSE {}
    /\ messages = IF cfg.fn = "message"
                  THEN [i \in 1..cfg.start |->
                           [channel |-> 1, user_id |-> 2, created_at |-> 0]]
                  ELSE <<>>
    /\ pages = IF cfg.fn = "page"
               THEN {[user_id |-> 2, updated_at |-> 0, created_at |-> 0]} ELSE {}
    /\ pageUpdates = IF cfg.fn = "page" THEN StartSends(cfg.start) ELSE <<>>
    /\ mail = IF cfg.fn = "mail"
              THEN [i \in 1..cfg.start |->
                       [from_user_id |-> 2, to_user_id |-> 3, created_at |-> 0]]
              ELSE <<>>
    /\ mailSends = IF cfg.fn = "mail" THEN StartSends(cfg.start) ELSE <<>>
    /\ refLedger = IF cfg.fn \in {"message", "page", "mail"}
                   THEN StartRows(2, cfg.fn, cfg.start) ELSE {}

NextQuota ==
    \/ RegisterRequest
    \/ CreateChannelRequest
    \/ PostMessageRequest
    \/ UpdatePageRequest
    \/ SendMailRequest
    \/ QuotaTick

SpecQuota == InitQuota /\ [][NextQuota]_vars

----------------------------------------------------------------------------
(* The server started with LIFT_RATE_LIMITS=true: the five rate-limited
   actions, each from a subject at or near its default limit *)

\* limit: the default limit of the flow; start: what the flow's subject has
\* done in second 0 by earlier requests
LiftedFlows ==
    {[fn |-> "edit", limit |-> DefaultRateLimits.PixelEditsPerDay, start |-> 0],
     [fn |-> "channel", limit |-> DefaultRateLimits.ChannelCreatesPerDay,
      start |-> DefaultRateLimits.ChannelCreatesPerDay - 1],
     [fn |-> "page", limit |-> DefaultRateLimits.PageUpdatesPerDay,
      start |-> DefaultRateLimits.PageUpdatesPerDay - 1],
     [fn |-> "mail", limit |-> DefaultRateLimits.MailSendsPerDay,
      start |-> DefaultRateLimits.MailSendsPerDay - 1],
     [fn |-> "register", limit |-> DefaultRateLimits.RegistrationsPerDay,
      start |-> DefaultRateLimits.RegistrationsPerDay - 1],
     [fn |-> "register", limit |-> DefaultRateLimits.RegistrationsPerDay,
      start |-> LiftedRateLimits.RegistrationsPerDay - 1]}

LiftedConfigs ==
    {[fn |-> f.fn, LIFT_RATE_LIMITS |-> "true", limit |-> f.limit,
      window |-> 24 * 60 * 60, start |-> f.start, instants |-> {0, Secs(1)}] :
        f \in LiftedFlows}

InitLifted ==
    /\ cfg \in LiftedConfigs
    /\ now = 0
    /\ ipLimits = IF cfg.fn = "register" THEN StartRows("1.2.3.4", "register", cfg.start)
                  ELSE {}
    /\ userLimits = {}
    /\ users = IF cfg.fn = "register" THEN StartUsers(2) ELSE CanvasUsers
    /\ lastCall = NoCall
    /\ nCalls = 0
    /\ firstAt = -1
    /\ resetAt = -1
    /\ sinceReset = 0
    /\ pc = [p \in Procs |-> "idle"]
    /\ pnow = [p \in Procs |-> 0]
    /\ pread = [p \in Procs |-> {}]
    /\ pres = [p \in Procs |-> [allowed |-> FALSE, err |-> FALSE]]
    /\ InitCanvasIdle
    /\ channels = IF cfg.fn = "channel"
                  THEN {[name |-> i, created_by |-> 2, created_at |-> 0] : i \in 1..cfg.start}
                  ELSE {}
    /\ messages = <<>>
    /\ pages = IF cfg.fn = "page"
               THEN {[user_id |-> 2, updated_at |-> 0, created_at |-> 0]} ELSE {}
    /\ pageUpdates = IF cfg.fn = "page" THEN StartSends(cfg.start) ELSE <<>>
    /\ mail = IF cfg.fn = "mail"
              THEN [i \in 1..cfg.start |->
                       [from_user_id |-> 2, to_user_id |-> 3, created_at |-> 0]]
              ELSE <<>>
    /\ mailSends = IF cfg.fn = "mail" THEN StartSends(cfg.start) ELSE <<>>
    /\ refLedger = {}
    /\ lastReq = NoReq
    /\ qreq = [p \in ChanProcs |-> NoChanReq]

NextLifted ==
    \/ cfg.fn = "edit" /\ EditPixelRequest
    \/ CreateChannelRequest
    \/ UpdatePageRequest
    \/ SendMailRequest
    \/ FaultyRegister
    \/ QuotaTick

SpecLifted == InitLifted /\ [][NextLifted]_vars

\* the edits of a user in the day up to now
EditsToday(userID) ==
    Cardinality({i \in DOMAIN edits :
                    /\ edits[i].user_id = userID
                    /\ edits[i].created_at > CurrentTimestamp(now) - DayTicks})

\* C28: with LIFT_RATE_LIMITS=true each rate-limited action (pixel edit, page
\* update, channel creation, mail send, registration) is admitted for one
\* subject up to 10,000 times within a day: none is refused as rate-limited
\* below that.
C28_LiftedLimits ==
    GetRateLimits = LiftedRateLimits =>
        /\ (lastEdit.kind = "EditPixel" /\ lastEdit.status = 429) =>
               EditsToday(lastEdit.user) >= GetRateLimits.PixelEditsPerDay
        /\ (lastReq.flow = "channel" /\ lastReq.status = 429) =>
               lastReq.count >= GetRateLimits.ChannelCreatesPerDay
        /\ (lastReq.flow = "page" /\ lastReq.status = 429) =>
               lastReq.count >= GetRateLimits.PageUpdatesPerDay
        /\ (lastReq.flow = "mail" /\ lastReq.status = 429) =>
               lastReq.count >= GetRateLimits.MailSendsPerDay
        /\ (lastCall.fn = "register" /\ lastCall.status = 429) =>
               /\ lastCall.pre # {}
               /\ RowOf(lastCall.pre).count >= GetRateLimits.RegistrationsPerDay

----------------------------------------------------------------------------
(* Claims on the quota-gated flows, requests one after another (SpecQuota) *)

QuotaFlows == {"channel", "message", "page", "mail"}

\* the period a flow's count looks back over
PeriodTicks(flow) == IF flow = "message" THEN HourTicks ELSE DayTicks

\* the rows the request's user had created in the period that ends at the
\* request, counted on the table as it was before the request
RecentRows(q) ==
    IF q.flow = "channel"
    THEN Cardinality({c \in q.pre : /\ c.created_by = q.user
                                    /\ c.created_at > CurrentTimestamp(q.at) - DayTicks})
    ELSE Cardinality({e \in q.pre :
                        /\ e[2].user_id = q.user
                        /\ e[2].created_at > CurrentTimestamp(q.at) - PeriodTicks(q.flow)})

C17_MessagesPerHour ==
    /\ (lastReq.flow = "message" /\ lastReq.gated) =>
          ((lastReq.status = 429) <=> (RecentRows(lastReq) >= MaxMessagesPerHour))
    /\ (lastReq.flow = "message" /\ lastReq.status # 201) =>
          Indexed(messages) = lastReq.pre
    /\ (lastReq.flow = "message" /\ lastReq.status = 201) =>
          /\ Len(messages) = Cardinality(lastReq.pre) + 1
          /\ RecentRows(lastReq) < MaxMessagesPerHour
    /\ (cfg.fn = "message" /\ cfg.start = 0 /\ now < HourTicks) =>
          /\ Len(messages) <= MaxMessagesPerHour
          /\ (lastReq.gated /\ Cardinality(lastReq.pre) < MaxMessagesPerHour) =>
                lastReq.status # 429
          /\ (lastReq.gated /\ Cardinality(lastReq.pre) = MaxMessagesPerHour) =>
                lastReq.status = 429

\* starting from none, ten messages were posted and the 11th post of the
\* hour, a well-formed one, has just been rejected
C17_Witness ==
    /\ cfg.fn = "message"
    /\ cfg.start = 0
    /\ now < HourTicks
    /\ Len(messages) = MaxMessagesPerHour
    /\ lastReq.flow = "message"
    /\ lastReq.status = 429
    /\ Indexed(messages) = lastReq.pre

----------------------------------------------------------------------------
(* CreateChannel requests in flight together: every request is a goroutine;  *)
(* the count, the name lookup and the INSERT are separate statements on the  *)
(* connection pool, outside any transaction.                                 *)

ChanInstants == {0, Secs(1), DayTicks, DayTicks + Secs(1)}

\* page_handlers.go:363-388  authenticated, the body decodes, the name is valid
ChStart(p) ==
    /\ qreq[p].pc \in {"idle", "done"}
    /\ Cardinality(channels) <= MaxChannelsPerDay + ExtraCalls
    /\ \E userID \in UserIDs :
        qreq' = [qreq EXCEPT ![p] = [pc |-> "count", user |-> userID,
                                     name |-> Cardinality(channels) + p,
                                     count |-> 0, status |-> 0]]
    /\ UNCHANGED <<now, cfg, ledgerVars, obsVars, procVars, canvasVars, txVars, sweepVars>>
    /\ UNCHANGED <<channels, messages, pages, pageUpdates, mail, mailSends, lastReq,
                   refLedger>>

\* page_handlers.go:375-383  CountUserChannelsToday, count >= 3
ChCount(p) ==
    /\ qreq[p].pc = "count"
    /\ LET count == CountUserChannelsToday(channels, qreq[p].user, now) IN
        qreq' = [qreq EXCEPT ![p].count = count,
                             ![p].pc = IF count >= MaxChannelsPerDay THEN "done"
                                       ELSE "exists",
                             ![p].status = IF count >= MaxChannelsPerDay THEN 429 ELSE 0]
    /\ UNCHANGED <<now, cfg, ledgerVars, obsVars, procVars, canvasVars, txVars, sweepVars>>
    /\ UNCHANGED <<channels, messages, pages, pageUpdates, mail, mailSends, lastReq,
                   refLedger>>

\* page_handlers.go:406-415  ChannelExists
ChExists(p) ==
    /\ qreq[p].pc = "exists"
    /\ LET exists == \E c \in channels : c.name = qreq[p].name IN
        qreq' = [qreq EXCEPT ![p].pc = IF exists THEN "done" ELSE "create",
                             ![p].status = IF exists THEN 409 ELSE 0]
    /\ UNCHANGED <<now, cfg, ledgerVars, obsVars, procVars, canvasVars, txVars, sweepVars>>
    /\ UNCHANGED <<channels, messages, pages, pageUpdates, mail, mailSends, lastReq,
                   refLedger>>

\* page_handlers.go:418-427  db.CreateChannel: INSERT INTO channels, name UNIQUE
ChCreate(p) ==
    /\ qreq[p].pc = "create"
    /\ IF \E c \in channels : c.name = qreq[p].name
       THEN /\ qreq' = [qreq EXCEPT ![p].pc = "done", ![p].status = 500]
            /\ UNCHANGED channels
       ELSE /\ channels' = channels \cup
                    {[name |-> qreq[p].name, created_by |-> qreq[p].user,
                      created_at |-> CurrentTimestamp(now)]}
            /\ qreq' = [qreq EXCEPT ![p].pc = "done", ![p].status = 201]
    /\ UNCHANGED <<now, cfg, ledgerVars, obsVars, procVars, canvasVars, txVars, sweepVars>>
    /\ UNCHANGED <<messages, pages, pageUpdates, mail, mailSends, lastReq, refLedger>>

ChanTick ==
    /\ \E t \in ChanInstants : t > now /\ now' = t
    /\ UNCHANGED <<cfg, ledgerVars, obsVars, procVars, canvasVars, txVars, sweepVars>>
    /\ UNCHANGED quotaVars

InitChannels == InitCanvasSeq

NextChannels ==
    \/ \E p \in ChanProcs : ChStart(p)
    \/ \E p \in ChanProcs : ChCount(p)
    \/ \E p \in ChanProcs : ChExists(p)
    \/ \E p \in ChanProcs : ChCreate(p)
    \/ ChanTick

SpecChannels == InitChannels /\ [][NextChannels]_vars

\* the channels of user u created in the 24 hours that begin at second t
ChannelsIn(u, t) ==
    {c \in channels : c.created_by = u /\ c.created_at >= t /\ c.created_at < t + DayTicks}

\* C16: under every interleaving of one user's CreateChannel requests,
\* concurrent ones included, the channels that user created inside any
\* 24-hour period never number more than 3, and a request whose count finds
\* 3 in the last 24 h is rejected with 429.
C16_ThreeChannelsPerDay ==
    /\ \A c \in channels :
          Cardinality(ChannelsIn(c.created_by, c.created_at)) <= MaxChannelsPerDay
    /\ \A p \in ChanProcs :
          (qreq[p].pc \in {"exists", "create", "done"} /\ qreq[p].count >= MaxChannelsPerDay)
              => qreq[p].status = 429

----------------------------------------------------------------------------
(* Claims about the image cache, requests one after another (SpecCanvasSeq) *)

\* C18: GetCanvasImage serves the cached bytes as they are if and only if the
\* cache slot is non-null and now - renderedAt < 10 s; when the slot is null
\* or its age is 10 s or more, the image is regenerated from the canvas store
\* (and, when that succeeds, served and stored).
C18_CacheValidity ==
    lastGet.status \in {200, 500} =>
        /\ lastGet.hit <=> (lastGet.slot # <<>> /\ lastGet.age < Secs(imageCacheTTL))
        /\ lastGet.hit =>
              /\ lastGet.status = 200
              /\ lastGet.body = lastGet.slot
              /\ imageCache = lastGet.slot
              /\ imageCacheTime = lastGet.at - lastGet.age
        /\ (~lastGet.hit /\ lastGet.status = 200) =>
              /\ lastGet.body = <<Render(GetAllPixels(canvas))>>
              /\ imageCache = lastGet.body
              /\ imageCacheTime = lastGet.at

\* an entry aged exactly 10 s: not served, the image is rendered again
C18_Witness ==
    /\ lastGet.status = 200
    /\ lastGet.slot # <<>>
    /\ lastGet.age = Secs(imageCacheTTL)
    /\ ~lastGet.hit
    /\ imageCacheTime = lastGet.at

\* C20: when GetCanvasImage misses and reading the pixels or rendering fails,
\* the cache slot, bytes and renderedAt, is left exactly as it was; only a
\* successful render replaces it.
C20_FailedRenderKeepsCache ==
    /\ (lastGet.status # 0 /\ lastGet.status # 200) =>
          /\ imageCache = lastGet.slot
          /\ imageCacheTime = lastGet.at - lastGet.age
    /\ (lastGet.status # 0
          /\ (imageCache # lastGet.slot \/ imageCacheTime # lastGet.at - lastGet.age)) =>
          (lastGet.status = 200 /\ ~lastGet.hit)

\* rendering failed on a miss over an expired entry, which is still in the slot
C20_Witness ==
    /\ lastGet.status = 500
    /\ lastGet.code = "RENDER_ERROR"
    /\ lastGet.slot # <<>>
    /\ lastGet.age >= Secs(imageCacheTTL)
    /\ imageCache = lastGet.slot

\* C21: the rendered image is a function of the set of stored pixels only:
\* whatever the order in which Render visits them, the image is the same;
\* and a miss that regenerates while the slot still holds the bytes set by
\* the previous regeneration, the canvas unchanged in between, produces
\* those same bytes again.
C21_RegenerationDeterministic ==
    /\ \A o \in Orders(GetAllPixels(canvas)) : RenderVisiting(o) = Render(GetAllPixels(canvas))
    /\ (lastGet.status = 200 /\ ~lastGet.hit /\ lastGet.pre.op = "set") =>
          lastGet.body = lastGet.slot

\* two pixels are stored, the entry rendered from them has expired, and the
\* miss after it rendered the same bytes again
C21_Witness ==
    /\ Cardinality(GetAllPixels(canvas)) = 2
    /\ lastGet.status = 200
    /\ ~lastGet.hit
    /\ lastGet.pre.op = "set"
    /\ lastGet.age >= Secs(imageCacheTTL)
    /\ lastGet.slot # <<>>
    /\ lastGet.body = lastGet.slot

\* one step: an EditPixel request that is not answered 200 leaves the users,
\* the canvas rows, the history and the cache as they were; and when a
\* last_edit_at changes, the step is an EditPixel request answered 200 and the
\* change is the stamp of that request's user with the time of the write
C23_Step ==
    /\ (lastEdit'.kind = "EditPixel" /\ lastEdit'.status # 200) =>
          /\ users' = users
          /\ canvas' = canvas
          /\ edits' = edits
          /\ imageCache' = imageCache
          /\ imageCacheTime' = imageCacheTime
    /\ users' # users =>
          /\ lastEdit'.kind = "EditPixel"
          /\ lastEdit'.status = 200
          /\ users' = Stamped(users, lastEdit'.user, now)
          /\ Len(edits') = Len(edits) + 1

\* C23: last_edit_at is changed only by a successful gated write: a rejected
\* EditPixel request (not authenticated, not eligible, invalid JSON,
\* coordinate outside 0..1023, invalid colour, store failure) changes neither
\* last_edit_at nor canvas, history or image cache, and no step of another
\* operation changes a last_edit_at.
C23_OnlySuccessfulEditStamps == [][C23_Step]_vars

\* past the cooldown of an earlier edit, with a rendering in the cache slot,
\* an edit with an invalid colour was refused: the stamp of the earlier edit,
\* its history row and the cache slot are still there
C23_Witness ==
    /\ lastEdit.kind = "EditPixel"
    /\ lastEdit.status = 400
    /\ lastEdit.code = "INVALID_COLOR"
    /\ lastEdit.pre.valid
    /\ LastEditAt(users, lastEdit.user) = lastEdit.pre
    /\ Len(edits) = 1
    /\ imageCache # <<>>

----------------------------------------------------------------------------
(* Claims about the image cache, requests in flight together (SpecCanvas) *)

\* one step of the program, seen from each EditPixel request in flight
C24_Step ==
    \A e \in Editors :
        \* the eligibility check comes before everything else
        /\ (eloc[e].checkedAt < 0 /\ eloc'[e].checkedAt >= 0) =>
               /\ ~eloc[e].committed /\ ~eloc[e].invalidated /\ eloc[e].status = 0
               /\ UNCHANGED <<canvas, edits, users, imageCache>>
        \* the write is committed by a request found eligible, the cache untouched
        /\ (~eloc[e].committed /\ eloc'[e].committed) =>
               /\ eloc[e].checkedAt >= 0 /\ eloc[e].canEdit
               /\ ~eloc[e].invalidated /\ eloc[e].status = 0
               /\ Len(edits') = Len(edits) + 1
               /\ edits'[Len(edits')].user_id = ereq[e].user
               /\ UNCHANGED imageCache
        \* the invalidation follows the commit, under the exclusive lock
        /\ (~eloc[e].invalidated /\ eloc'[e].invalidated) =>
               /\ eloc[e].committed /\ eloc[e].status = 0
               /\ imageCacheMu.writer = <<"EditPixel", e>>
               /\ imageCache' = <<>>
               /\ UNCHANGED <<canvas, edits, users>>
        \* the success response comes last
        /\ (eloc[e].status # 200 /\ eloc'[e].status = 200) =>
               /\ eloc[e].checkedAt >= 0 /\ eloc[e].canEdit
               /\ eloc[e].committed /\ eloc[e].invalidated
               /\ UNCHANGED <<canvas, edits, users, imageCache>>

\* C24: in every EditPixel execution that answers success the eligibility
\* check happens first, then the committed write to the canvas store, then
\* the cache invalidation, and the success response is sent only after the
\* cache slot has been set to null.
C24_EditStepOrder == [][C24_Step]_vars

\* an edit answered success after its invalidation dropped a cached image
C24_Witness ==
    /\ \E e \in Editors : epc[e] = "done" /\ eloc[e].status = 200 /\ eloc[e].invalidated
    /\ lastCacheOp = [op |-> "invalidate", had |-> TRUE]

\* the requests that are writing a response to their client
Transmitting == {r \in Readers : rpc[r] \in {"hitwrite", "respond"}}

\* C25: a reader holds the shared lock only for the copy-out and a writer the
\* exclusive lock only for the set or the invalidation: no request holds the
\* cache lock while it writes the response to its client, and no invalidation
\* waits for a response that is being transmitted.
C25_NoLockWhileResponding ==
    /\ \A r \in Transmitting :
           /\ r \notin imageCacheMu.readers
           /\ imageCacheMu.writer # <<"GetCanvasImage", r>>
    /\ \A e \in Editors :
           /\ epc[e] = "respond" => imageCacheMu.writer # <<"EditPixel", e>>
           /\ epc[e] = "locking" => imageCacheMu.readers \cap Transmitting = {}

\* who holds imageCacheMu, shared or exclusive
ReaderHolds(r) == r \in imageCacheMu.readers \/ imageCacheMu.writer = <<"GetCanvasImage", r>>
EditorHolds(e) == imageCacheMu.writer = <<"EditPixel", e>>

\* a request has arrived and has not been answered
InFlight ==
    \/ \E e \in Editors : epc[e] \notin {"idle", "done"}
    \/ \E r \in Readers : rpc[r] \notin {"idle", "done"}

CanRun ==
    \/ \E e \in Editors : ENABLED EditorRun(e)
    \/ \E r \in Readers : ENABLED ReaderRun(r)

Regenerated == {r \in Readers : rpc[r] = "done" /\ rloc[r].status = 200 /\ ~rloc[r].hit}

\* C19: on a miss GetCanvasImage responds with the bytes it rendered itself,
\* not with a re-read of the cache slot: whatever a concurrent invalidation
\* or another request's set did to the slot between this request's set and
\* its response, the body it returns is its own rendering.
C19_RespondsWithOwnBytes ==
    \A r \in Regenerated : rloc[r].body = <<Render(rloc[r].pixels)>>

\* a request responded when the slot no longer held what it had stored
C19_Witness ==
    \E r \in Regenerated : rloc[r].slot # <<Render(rloc[r].pixels)>>
====
